---- MODULE Spec2Model ----
(***************************************************************************)
(* Verification model of the bugstr crash-report receiver (rust/src):      *)
(* the CHK chunk engine, the transport selection, the persistent store,    *)
(* the multi-relay chunk fetcher and the serve/listen relay subscriptions. *)
(***************************************************************************)
EXTENDS Integers, Sequences, FiniteSets, TLC

VARIABLES
    \* ---- chunk engine (chunking.rs, transport.rs)
    payload,      \* the bytes handed to chunk_payload
    transport,    \* result of TransportKind::for_size(payload.len())
    cres,         \* result of chunk_payload(payload)
    given,        \* the chunk list handed to reassemble_payload
    tampered,     \* index of the chunk whose hash field was altered, or -1
    rres,         \* result of reassemble_payload
    rman,         \* the manifest a receiver hands to reassemble_payload, if any
    edits,        \* how many changes the manifest and chunk list went through
    cpc,          \* position of the chunk-engine scenario
    \* ---- persistent store (storage.rs)
    db,           \* the crashes table: [rows, seq] (seq: last AUTOINCREMENT id)
    ret,          \* what the last CrashStorage call returned
    calls,        \* history of insert calls: <<[report, ret], ...>>
    deleted,      \* whether delete_older_than has run
    glimit,       \* the limit of the get_groups call
    groups,       \* what get_groups returned, None before the call
    \* ---- chunk fetcher (main.rs: fetch_chunks, fetch_chunks_from_relay)
    fmanifest,    \* the manifest whose chunks are fetched
    holds,        \* holds[r]: the events relay r stores
    mode,         \* mode[r]: how relay r behaves ("up", "down", "silent", "rogue")
    fpc,          \* position of fetch_chunks
    task,         \* task[r]: the fetch_chunks_from_relay task on relay r
    fchunks,      \* the shared map index -> ChunkPayload
    fres,         \* what fetch_chunks returned
    fout,         \* what reassemble_payload made of the fetched chunks
    \* ---- receiver (main.rs: serve, listen)
    cmd,          \* the command that runs: "serve" or "listen"
    proc,         \* "running", or "aborted" by a panic under panic=abort
    stored,       \* the gift wraps the relays hold for the receiver
    net,          \* what else the relays do: the other text frames they send
                  \* and the outcomes fetch_chunks can have with them
    sub,          \* sub[r]: the subscription task of relay r
    frames,       \* EVENT frames delivered so far
    queue,        \* the mpsc channel between subscribers and storage worker
    worker,       \* the storage worker task
    \* ---- compression envelope (compression.rs)
    zin,          \* the string at hand
    zfrom,        \* the string whose compression gave zin, if any
    zt,           \* the threshold of maybe_compress_payload
    zop,          \* the function applied last
    zout,         \* what it returned
    zn,           \* how many results have been fed back as input
    \* ---- mapping store (symbolication/store.rs)
    mstore,       \* directories and files below the root, and the cache
    mcall,        \* the call made last
    mret,         \* what it returned
    msaves,       \* how many save_mapping calls were made
    \* ---- ProGuard mapping (symbolication/android.rs)
    pfile,        \* the lines of the mapping file
    pmapping,     \* the ProguardMapping parsed from it
    pcall,        \* the call made last
    pret,         \* what it returned
    \* ---- symbolication (symbolication/mod.rs and the parsers)
    ystore,       \* the mapping store of the Symbolicator
    ytrace,       \* the lines of the stack trace
    ycontext,     \* the SymbolicationContext
    yname,        \* the platform name the context was built from, if any
    ycall,        \* the call made last
    yret,         \* what it returned
    \* ---- events (event.rs)
    evs,          \* the events built, each with the arguments of new
    eouts         \* per event: the ids compute_id returned, what to_json returned

chunkVars == <<payload, transport, cres, given, tampered, rres, rman, edits, cpc>>
storeVars == <<db, ret, calls, deleted>>
groupVars == <<glimit, groups>>
fetchVars == <<fmanifest, holds, mode, fpc, task, fchunks, fres, fout>>

serveVars == <<cmd, proc, stored, net, sub, frames, queue, worker>>

zipVars == <<zin, zfrom, zt, zop, zout, zn>>

mappingVars == <<mstore, mcall, mret, msaves>>

proguardVars == <<pfile, pmapping, pcall, pret>>

symVars == <<ystore, ytrace, ycontext, yname, ycall, yret>>

eventVars == <<evs, eouts>>

vars == <<chunkVars, storeVars, groupVars, fetchVars, serveVars, zipVars, mappingVars,
          proguardVars, symVars, eventVars>>

Null == [none |-> TRUE]

(***************************************************************************)
(* Byte strings.  A byte string is kept run-length encoded in canonical    *)
(* form: a sequence of runs [b |-> byte, n |-> count] with n > 0 and       *)
(* adjacent runs of different bytes, so two byte strings are equal iff     *)
(* their encodings are equal, and the real sizes (50 KiB, 48 KiB) are kept.*)
(***************************************************************************)
RECURSIVE BLen(_)
BLen(P) == IF P = <<>> THEN 0 ELSE Head(P).n + BLen(Tail(P))

BCat(P, Q) ==
    IF P = <<>> THEN Q
    ELSE IF Q = <<>> THEN P
    ELSE IF P[Len(P)].b = Head(Q).b
         THEN SubSeq(P, 1, Len(P) - 1)
              \o <<[b |-> Head(Q).b, n |-> P[Len(P)].n + Head(Q).n]>>
              \o Tail(Q)
         ELSE P \o Q

RECURSIVE BTake(_, _)
BTake(P, k) ==
    IF k = 0 \/ P = <<>> THEN <<>>
    ELSE IF Head(P).n <= k
         THEN <<Head(P)>> \o BTake(Tail(P), k - Head(P).n)
         ELSE <<[b |-> Head(P).b, n |-> k]>>

RECURSIVE BDrop(_, _)
BDrop(P, k) ==
    IF k = 0 \/ P = <<>> THEN P
    ELSE IF Head(P).n <= k
         THEN BDrop(Tail(P), k - Head(P).n)
         ELSE <<[b |-> Head(P).b, n |-> Head(P).n - k]>> \o Tail(P)

\* data.chunks(chunk_size): consecutive windows of `size` bytes, the last
\* possibly shorter; no window for empty data.
RECURSIVE SliceChunks(_, _)
SliceChunks(P, size) ==
    IF P = <<>> THEN <<>>
    ELSE <<BTake(P, size)>> \o SliceChunks(BDrop(P, size), size)

(***************************************************************************)
(* transport.rs                                                            *)
(***************************************************************************)
KIND_DIRECT == 10420
KIND_MANIFEST == 10421
KIND_CHUNK == 10422
KIND_LEGACY == 14
DIRECT_SIZE_THRESHOLD == 50 * 1024
MAX_CHUNK_SIZE == 48 * 1024

for_size_strict(size) ==
    IF size < DIRECT_SIZE_THRESHOLD THEN "Direct" ELSE "Chunked"

for_size(size) ==
    IF size <= DIRECT_SIZE_THRESHOLD THEN "Direct" ELSE "Chunked"

is_crash_report_kind(kind) == kind \in {KIND_LEGACY, KIND_DIRECT, KIND_MANIFEST}

is_chunked_kind(kind) == kind = KIND_MANIFEST

(***************************************************************************)
(* Primitives used by the chunk engine.  SHA-256 is collision free: the    *)
(* digest of x is the 32-byte value [sha |-> x].  encrypt_chk is the CHK   *)
(* AEAD of hashtree_core: the key is the digest of the plaintext and the   *)
(* ciphertext opens only under the key it was sealed with.                 *)
(***************************************************************************)
KEY_LEN == 32

Sha256(x) == [sha |-> x]

\* the 32 zero bytes of test_chunk_hash_verification
ZeroKey == [zero |-> TRUE]

encrypt_chk(plain) ==
    [ciphertext |-> [sealed |-> plain, under |-> Sha256(plain)],
     key |-> Sha256(plain)]

decrypt_chk_unauthenticated(ciphertext, key) ==
    [ok |-> TRUE, plain |-> ciphertext.sealed]

decrypt_chk(ciphertext, key) ==
    IF ciphertext.under = key
    THEN [ok |-> TRUE, plain |-> ciphertext.sealed]
    ELSE [ok |-> FALSE]

\* hex::encode writes lower-case digits; hex::decode accepts both cases and
\* rejects an odd number of digits or a non-hex digit.  A hex string is
\* [bytes, nbytes, upper, valid]: the bytes it spells, how many, its case.
hex_encode(bytes, nbytes) ==
    [bytes |-> bytes, nbytes |-> nbytes, upper |-> FALSE, valid |-> TRUE]

hex_decode(s) ==
    IF s.valid THEN [ok |-> TRUE, bytes |-> s.bytes, nbytes |-> s.nbytes]
    ELSE [ok |-> FALSE]

base64_encode(bytes) == [b64 |-> bytes]

base64_decode(s) ==
    IF "b64" \in DOMAIN s THEN [ok |-> TRUE, bytes |-> s.b64] ELSE [ok |-> FALSE]

(***************************************************************************)
(* chunking.rs                                                             *)
(***************************************************************************)
Err(e) == [ok |-> FALSE, err |-> e]

\* root hash: SHA-256 over the concatenation of the keys, in list order
RootHash(keys) == hex_encode(Sha256(keys), KEY_LEN)

chunk_payload(data) ==
    IF BLen(data) <= DIRECT_SIZE_THRESHOLD
    THEN Err("PayloadTooSmall")
    ELSE LET windows == SliceChunks(data, MAX_CHUNK_SIZE)
             sealed == [i \in 1..Len(windows) |-> encrypt_chk(windows[i])]
             chunks == [i \in 1..Len(windows) |->
                          [v |-> 1,
                           index |-> i - 1,
                           hash |-> hex_encode(sealed[i].key, KEY_LEN),
                           data |-> base64_encode(sealed[i].ciphertext)]]
             chunk_keys == [i \in 1..Len(windows) |-> sealed[i].key]
         IN [ok |-> TRUE,
             manifest |-> [v |-> 1,
                           root_hash |-> RootHash(chunk_keys),
                           total_size |-> BLen(data),
                           chunk_count |-> Len(chunks),
                           chunk_ids |-> <<>>,
                           chunk_relays |-> Null],
             chunks |-> chunks]

\* sort_by_key(|c| c.index): a stable insertion sort
RECURSIVE InsertByIndex(_, _)
InsertByIndex(sorted, c) ==
    IF sorted = <<>> THEN <<c>>
    ELSE IF sorted[Len(sorted)].index <= c.index THEN Append(sorted, c)
    ELSE Append(InsertByIndex(SubSeq(sorted, 1, Len(sorted) - 1), c),
                sorted[Len(sorted)])

RECURSIVE SortFrom(_, _)
SortFrom(acc, rest) ==
    IF rest = <<>> THEN acc
    ELSE SortFrom(InsertByIndex(acc, Head(rest)), Tail(rest))

unsorted(chunks) == chunks

sort_by_index(chunks) == SortFrom(<<>>, chunks)

\* no chunk is opened: the keys are taken from the hash fields as they are
DecryptAll_unchecked(chunks, keys, result) ==
    [ok |-> TRUE, keys |-> [i \in 1..Len(chunks) |-> chunks[i].hash.bytes],
     result |-> result]

\* the decrypt loop of reassemble_payload: first failure wins
RECURSIVE DecryptAll(_, _, _)
DecryptAll(chunks, keys, result) ==
    IF chunks = <<>> THEN [ok |-> TRUE, keys |-> keys, result |-> result]
    ELSE LET chunk == Head(chunks)
             key_bytes == hex_decode(chunk.hash)
         IN IF ~key_bytes.ok THEN Err("DecryptionError")
            ELSE IF key_bytes.nbytes # KEY_LEN THEN Err("DecryptionError")
            ELSE LET ciphertext == base64_decode(chunk.data)
                 IN IF ~ciphertext.ok THEN Err("DecryptionError")
                    ELSE LET decrypted == decrypt_chk(ciphertext.bytes, key_bytes.bytes)
                         IN IF ~decrypted.ok THEN Err("DecryptionError")
                            ELSE DecryptAll(Tail(chunks),
                                            Append(keys, key_bytes.bytes),
                                            BCat(result, decrypted.plain))

reassemble_payload(manifest, chunks) ==
    IF Len(chunks) # manifest.chunk_count THEN Err("InvalidManifest")
    ELSE LET sorted_chunks == sort_by_index(chunks)
             bad == {i \in 1..Len(sorted_chunks) : sorted_chunks[i].index # i - 1}
         IN IF bad # {}
            THEN [ok |-> FALSE, err |-> "MissingChunk",
                  index |-> (CHOOSE i \in bad : \A j \in bad : i <= j) - 1]
            ELSE LET dec == DecryptAll(sorted_chunks, <<>>, <<>>)
                 IN IF ~dec.ok THEN dec
                    ELSE IF RootHash(dec.keys) # manifest.root_hash
                         THEN Err("InvalidRootHash")
                         ELSE [ok |-> TRUE, bytes |-> dec.result]

\* a count that rounds down
expected_chunk_count_floor(payload_size) ==
    payload_size \div MAX_CHUNK_SIZE

expected_chunk_count(payload_size) ==
    (payload_size + MAX_CHUNK_SIZE - 1) \div MAX_CHUNK_SIZE

(***************************************************************************)
(* Chunk-engine scenario: a payload is chosen, transport is selected, the  *)
(* payload is chunked, the chunk list is handed over in some order, with   *)
(* at most one hash field altered, and reassembled.                        *)
(***************************************************************************)
MaxByte == 1
MaxChunks == 3

PayloadSizes ==
    {k * MAX_CHUNK_SIZE + d : k \in 0..MaxChunks, d \in {0, 1}}
    \cup {1000, DIRECT_SIZE_THRESHOLD, DIRECT_SIZE_THRESHOLD + 1, 110 * 1024}

PayloadCuts == {0, 1, MAX_CHUNK_SIZE, MAX_CHUNK_SIZE + 1}

Run(b, n) == IF n = 0 THEN <<>> ELSE <<[b |-> b, n |-> n]>>

Payloads ==
    {BCat(Run(b1, n1), Run(b2, total - n1)) :
        <<b1, b2, n1, total>> \in
            {q \in (0..MaxByte) \X (0..MaxByte) \X PayloadCuts \X PayloadSizes :
                q[3] <= q[4]}}

Orderings(n) ==
    {f \in [1..n -> 1..n] : \A i, j \in 1..n : f[i] = f[j] => i = j}

\* the hash strings a chunk's hash field may be changed to
HashStrings(chunks) ==
    LET keys == {hex_decode(chunks[i].hash).bytes : i \in 1..Len(chunks)}
                \cup {ZeroKey}
    IN  {[bytes |-> k, nbytes |-> KEY_LEN, upper |-> u, valid |-> TRUE] :
            k \in keys, u \in BOOLEAN}
        \cup {[bytes |-> ZeroKey, nbytes |-> KEY_LEN - 1, upper |-> FALSE, valid |-> TRUE],
              [bytes |-> ZeroKey, nbytes |-> KEY_LEN, upper |-> FALSE, valid |-> FALSE]}

ChunkStart ==
    /\ payload \in Payloads
    /\ transport = "none"
    /\ cres = Null
    /\ given = <<>>
    /\ tampered = -1
    /\ rres = Null
    /\ rman = Null
    /\ edits = 0
    /\ cpc = "start"

SelectTransport ==
    /\ cpc = "start"
    /\ transport = "none"
    /\ transport' = for_size(BLen(payload))
    /\ UNCHANGED <<payload, cres, given, tampered, rres, rman, edits, cpc>>

ChunkPayload ==
    /\ cpc = "start"
    /\ cres' = chunk_payload(payload)
    /\ given' = IF cres'.ok THEN cres'.chunks ELSE <<>>
    /\ cpc' = IF cres'.ok THEN "chunked" ELSE "done"
    /\ UNCHANGED <<payload, transport, tampered, rres, rman, edits>>

Reorder ==
    /\ cpc = "chunked"
    /\ \E f \in Orderings(Len(given)) :
          given' = [i \in 1..Len(given) |-> given[f[i]]]
    /\ cpc' = "ordered"
    /\ UNCHANGED <<payload, transport, cres, tampered, rres, rman, edits>>

TamperHash ==
    /\ cpc = "ordered"
    /\ tampered = -1
    /\ \E i \in 1..Len(given) :
       \E h \in HashStrings(given) \ {given[i].hash} :
          /\ given' = [given EXCEPT ![i].hash = h]
          /\ tampered' = given[i].index
    /\ UNCHANGED <<payload, transport, cres, rres, rman, edits, cpc>>

Reassemble ==
    /\ cpc = "ordered"
    /\ rres' = reassemble_payload(cres.manifest, given)
    /\ cpc' = "done"
    /\ UNCHANGED <<payload, transport, cres, given, tampered, rman, edits>>

ChunkIdle ==
    /\ payload = <<>>
    /\ transport = "none"
    /\ cres = Null
    /\ given = <<>>
    /\ tampered = -1
    /\ rres = Null
    /\ rman = Null
    /\ edits = 0
    /\ cpc = "idle"

ChunkStep == SelectTransport \/ ChunkPayload \/ Reorder \/ TamperHash \/ Reassemble

(***************************************************************************)
(* Receiver scenario of the chunk engine: a sender chunks a payload, the   *)
(* manifest and the chunk list reach the receiver after a bounded number   *)
(* of changes (by the sender, a relay or the fetch), and the receiver      *)
(* calls reassemble_payload on what it holds.                              *)
(***************************************************************************)
MaxEdits == 2

\* two chunks; three chunks of which the first two are equal; three
\* different chunks
SentPayloads ==
    {Run(0, DIRECT_SIZE_THRESHOLD + 1),
     Run(0, 2 * MAX_CHUNK_SIZE + 1),
     BCat(Run(1, MAX_CHUNK_SIZE), Run(0, MAX_CHUNK_SIZE + 1))}

\* chunks of another payload
OtherChunks == chunk_payload(Run(1, 2 * MAX_CHUNK_SIZE + 1)).chunks

ChunkSet(chunks) == {chunks[i] : i \in 1..Len(chunks)}

\* what a hash field may be changed to: the same digits in upper case,
\* another chunk's hash, 32 zero bytes, 31 bytes, not hex
OtherHashes(chunks, i) ==
    ({[chunks[i].hash EXCEPT !.upper = TRUE]}
     \cup {c.hash : c \in ChunkSet(chunks) \cup ChunkSet(OtherChunks)}
     \cup {[bytes |-> ZeroKey, nbytes |-> KEY_LEN, upper |-> FALSE, valid |-> TRUE],
           [bytes |-> ZeroKey, nbytes |-> KEY_LEN - 1, upper |-> FALSE, valid |-> TRUE],
           [bytes |-> ZeroKey, nbytes |-> KEY_LEN, upper |-> FALSE, valid |-> FALSE]})
    \ {chunks[i].hash}

\* what a data field may be changed to: another chunk's data, not base64
OtherData(chunks, i) ==
    ({c.data : c \in ChunkSet(chunks) \cup ChunkSet(OtherChunks)}
     \cup {[notb64 |-> TRUE]})
    \ {chunks[i].data}

\* root hashes a manifest may carry instead: over the keys the chunk list
\* spells, in list order, and over the keys of the other payload
OtherRoots(chunks) ==
    {RootHash([i \in 1..Len(chunks) |-> chunks[i].hash.bytes]),
     RootHash([i \in 1..Len(OtherChunks) |-> OtherChunks[i].hash.bytes]),
     RootHash(<<>>)}

ReassembleStart ==
    /\ payload \in SentPayloads
    /\ transport = "none"
    /\ cres = Null
    /\ given = <<>>
    /\ tampered = -1
    /\ rres = Null
    /\ rman = Null
    /\ edits = 0
    /\ cpc = "start"

\* the sender: chunk_payload, manifest and chunks published
Publish ==
    /\ cpc = "start"
    /\ cres' = chunk_payload(payload)
    /\ rman' = cres'.manifest
    /\ given' = cres'.chunks
    /\ cpc' = "received"
    /\ UNCHANGED <<payload, transport, tampered, rres, edits>>

Edit == cpc = "received" /\ edits < MaxEdits /\ edits' = edits + 1

DropChunk ==
    /\ Edit
    /\ \E i \in 1..Len(given) :
          given' = SubSeq(given, 1, i - 1) \o SubSeq(given, i + 1, Len(given))
    /\ UNCHANGED <<payload, transport, cres, tampered, rres, rman, cpc>>

AddChunk ==
    /\ Edit
    /\ \E c \in ChunkSet(cres.chunks) \cup ChunkSet(OtherChunks) :
          given' = Append(given, c)
    /\ UNCHANGED <<payload, transport, cres, tampered, rres, rman, cpc>>

SwapChunks ==
    /\ Edit
    /\ \E i, j \in 1..Len(given) :
          /\ i < j
          /\ given' = [given EXCEPT ![i] = given[j], ![j] = given[i]]
    /\ UNCHANGED <<payload, transport, cres, tampered, rres, rman, cpc>>

SetIndex ==
    /\ Edit
    /\ \E i \in 1..Len(given), k \in 0..MaxChunks :
          /\ k # given[i].index
          /\ given' = [given EXCEPT ![i].index = k]
    /\ UNCHANGED <<payload, transport, cres, tampered, rres, rman, cpc>>

SetHash ==
    /\ Edit
    /\ \E i \in 1..Len(given) : \E h \in OtherHashes(given, i) :
          given' = [given EXCEPT ![i].hash = h]
    /\ UNCHANGED <<payload, transport, cres, tampered, rres, rman, cpc>>

SetData ==
    /\ Edit
    /\ \E i \in 1..Len(given) : \E d \in OtherData(given, i) :
          given' = [given EXCEPT ![i].data = d]
    /\ UNCHANGED <<payload, transport, cres, tampered, rres, rman, cpc>>

SetTotalSize ==
    /\ Edit
    /\ \E size \in {0, rman.total_size - 1, rman.total_size + 1} :
          rman' = [rman EXCEPT !.total_size = size]
    /\ UNCHANGED <<payload, transport, cres, given, tampered, rres, cpc>>

SetChunkCount ==
    /\ Edit
    /\ \E n \in {rman.chunk_count - 1, rman.chunk_count + 1} :
          rman' = [rman EXCEPT !.chunk_count = n]
    /\ UNCHANGED <<payload, transport, cres, given, tampered, rres, cpc>>

SetRootHash ==
    /\ Edit
    /\ \E root \in OtherRoots(given) \ {rman.root_hash} :
          rman' = [rman EXCEPT !.root_hash = root]
    /\ UNCHANGED <<payload, transport, cres, given, tampered, rres, cpc>>

\* the receiver: reassemble_payload(&manifest, &chunks)
ReassembleReceived ==
    /\ cpc = "received"
    /\ rres' = reassemble_payload(rman, given)
    /\ cpc' = "done"
    /\ UNCHANGED <<payload, transport, cres, given, tampered, rman, edits>>

ReassembleStep ==
    \/ Publish
    \/ DropChunk \/ AddChunk \/ SwapChunks \/ SetIndex \/ SetHash \/ SetData
    \/ SetTotalSize \/ SetChunkCount \/ SetRootHash
    \/ ReassembleReceived

(***************************************************************************)
(* storage.rs: the crashes table.  Option<T> is None or Some(x).           *)
(***************************************************************************)
None == Null
Some(x) == [some |-> x]

EmptyDb == [rows |-> {}, seq |-> 0]

\* INSERT OR REPLACE instead of INSERT OR IGNORE
insert_or_replace(d, report) ==
    [db |-> [rows |-> {row \in d.rows : row.event_id # report.event_id}
                      \cup {[report EXCEPT !.id = d.seq + 1]},
             seq |-> d.seq + 1],
     ret |-> Some(d.seq + 1)]

\* CrashStorage::insert: INSERT OR IGNORE under UNIQUE(event_id); the id
\* column is INTEGER PRIMARY KEY AUTOINCREMENT, the id of `report` is unused.
\* execute() returns the number of rows changed; 0 means the row was ignored.
insert(d, report) ==
    LET changed == IF \E row \in d.rows : row.event_id = report.event_id
                   THEN 0 ELSE 1
    IN  IF changed = 0
        THEN [db |-> d, ret |-> None]
        ELSE [db |-> [rows |-> d.rows \cup {[report EXCEPT !.id = d.seq + 1]},
                      seq |-> d.seq + 1],
              ret |-> Some(d.seq + 1)]

\* CrashStorage::count
count(d) == Cardinality(d.rows)

\* CrashStorage::delete_older_than
delete_older_than(d, timestamp) ==
    [db |-> [d EXCEPT !.rows = {row \in d.rows : ~(row.received_at < timestamp)}],
     ret |-> Cardinality({row \in d.rows : row.received_at < timestamp})]

(***************************************************************************)
(* Store scenario: any sequence of insert and delete_older_than calls.     *)
(***************************************************************************)
MaxCalls == 4

StoreEventIds == {"same_id", "event_0", "event_1"}

\* the report of test_duplicate_prevention, and one differing in other fields
StoreReports ==
    {[id |-> 0, event_id |-> e, sender_pubkey |-> "pubkey",
      received_at |-> 1000, created_at |-> 999,
      app_name |-> None, app_version |-> None, exception_type |-> None,
      message |-> None, stack_trace |-> None, raw_content |-> "raw",
      environment |-> None, release |-> None] : e \in StoreEventIds}
    \cup
    {[id |-> 0, event_id |-> e, sender_pubkey |-> "pubkey",
      received_at |-> 1001, created_at |-> 999,
      app_name |-> None, app_version |-> Some("1.0.0"),
      exception_type |-> Some("NullPointerException"),
      message |-> None, stack_trace |-> None, raw_content |-> "other",
      environment |-> None, release |-> None] : e \in StoreEventIds}

StoreStart ==
    /\ db = EmptyDb
    /\ ret = None
    /\ calls = <<>>
    /\ deleted = FALSE

StoreInsert ==
    /\ Len(calls) < MaxCalls
    /\ \E report \in StoreReports :
          LET r == insert(db, report)
          IN  /\ db' = r.db
              /\ ret' = r.ret
              /\ calls' = Append(calls, [report |-> report, ret |-> r.ret])
    /\ UNCHANGED deleted

StoreDelete ==
    /\ ~deleted
    /\ \E timestamp \in {1001, 1002} :
          LET r == delete_older_than(db, timestamp)
          IN  /\ db' = r.db
              /\ ret' = Some(r.ret)
    /\ deleted' = TRUE
    /\ UNCHANGED calls

StoreStep == StoreInsert \/ StoreDelete

(***************************************************************************)
(* storage.rs: CrashStorage::get_groups.  SQL leaves two orders open: the  *)
(* order of groups with equal counts, and the order in which GROUP_CONCAT  *)
(* joins the distinct versions; get_groups is therefore the set of the     *)
(* vectors the query may return.                                           *)
(***************************************************************************)

\* a group by the raw column value, NULL being a group of its own
exception_type_raw(row) ==
    IF row.exception_type = None THEN "NULL" ELSE row.exception_type.some

\* COALESCE(exception_type, 'Unknown') as exc_type
exc_type(row) ==
    IF row.exception_type = None THEN "Unknown" ELSE row.exception_type.some

\* the rows of one group of GROUP BY exc_type
group_rows(d, key) == {row \in d.rows : exc_type(row) = key}

\* MIN(received_at), MAX(received_at) over a non-empty group
min_received_at(rows) ==
    CHOOSE t \in {row.received_at : row \in rows} :
        \A row \in rows : t <= row.received_at
max_received_at(rows) ==
    CHOOSE t \in {row.received_at : row \in rows} :
        \A row \in rows : t >= row.received_at

\* the orders in which the elements of a finite set can be listed
orderings(S) ==
    {s \in [1..Cardinality(S) -> S] :
        \A i, j \in 1..Cardinality(S) : i # j => s[i] # s[j]}

\* str::split(','): the pieces of a version string
split_comma(s) == IF s = "1,1" THEN <<"1", "1">> ELSE <<s>>

RECURSIVE flatten(_)
flatten(seqs) ==
    IF seqs = <<>> THEN <<>> ELSE Head(seqs) \o flatten(Tail(seqs))

\* GROUP_CONCAT(DISTINCT app_version) followed by split(','): NULLs are
\* skipped, no non-NULL value gives NULL and then the empty vector; joining
\* with ',' and splitting at ',' yields the pieces of each value in turn
app_versions_of(rows) ==
    LET distinct == {row.app_version.some :
                        row \in {r \in rows : r.app_version # None}}
    IN  {flatten([i \in 1..Len(o) |-> split_comma(o[i])]) : o \in orderings(distinct)}

CrashGroup(exception_type, rows, app_versions) ==
    [exception_type |-> exception_type,
     count |-> Cardinality(rows),
     first_seen |-> min_received_at(rows),
     last_seen |-> max_received_at(rows),
     app_versions |-> app_versions]

\* the rows one group may produce
group_of(d, key) ==
    {CrashGroup(key, group_rows(d, key), v) : v \in app_versions_of(group_rows(d, key))}

\* ORDER BY count DESC
order_by_count_desc(keys, d) ==
    {o \in orderings(keys) :
        \A i, j \in 1..Len(o) :
            i < j => Cardinality(group_rows(d, o[i])) >= Cardinality(group_rows(d, o[j]))}

\* LIMIT ?1
limit_to(s, limit) == SubSeq(s, 1, IF limit < Len(s) THEN limit ELSE Len(s))

\* the vectors built from one order of the keys
collect(d, o) ==
    {s \in [1..Len(o) -> UNION {group_of(d, o[i]) : i \in 1..Len(o)}] :
        \A i \in 1..Len(o) : s[i] \in group_of(d, o[i])}

\* CrashStorage::get_groups
get_groups(d, limit) ==
    UNION {collect(d, limit_to(o, limit)) :
              o \in order_by_count_desc({exc_type(row) : row \in d.rows}, d)}

(***************************************************************************)
(* Grouping scenario, after test_grouping: up to MaxRows inserts with      *)
(* event ids event_0, event_1, ..., then one get_groups call.              *)
(***************************************************************************)
MaxRows == 3

ExceptionTypes ==
    {None, Some("Unknown"), Some("NullPointerException"), Some("IOException")}

\* (received_at, app_version) of the reports
Arrivals ==
    {<<1000, None>>, <<1001, Some("1.0.0")>>, <<1002, Some("1,1")>>}

GroupReports(i) ==
    {[id |-> 0, event_id |-> <<"event", i>>, sender_pubkey |-> "pubkey",
      received_at |-> a[1], created_at |-> 999,
      app_name |-> None, app_version |-> a[2], exception_type |-> t,
      message |-> None, stack_trace |-> None, raw_content |-> "raw",
      environment |-> None, release |-> None] :
        a \in Arrivals, t \in ExceptionTypes}

Limits == {0, 1, 2, 10}

GroupsStart ==
    /\ glimit = 0
    /\ groups = None

GroupsIdle ==
    /\ glimit = 0
    /\ groups = None

GroupsInsert ==
    /\ groups = None
    /\ Len(calls) < MaxRows
    /\ \E report \in GroupReports(Len(calls)) :
          LET r == insert(db, report)
          IN  /\ db' = r.db
              /\ ret' = r.ret
              /\ calls' = Append(calls, [report |-> report, ret |-> r.ret])
    /\ UNCHANGED <<deleted, glimit, groups>>

GetGroups ==
    /\ groups = None
    /\ \E limit \in Limits :
          /\ glimit' = limit
          /\ \E result \in get_groups(db, limit) : groups' = Some(result)
    /\ UNCHANGED <<db, ret, calls, deleted>>

GroupsStep == GroupsInsert \/ GetGroups

(***************************************************************************)
(* main.rs: fetch_chunks and fetch_chunks_from_relay.                      *)
(*                                                                         *)
(* A relay stores events.  An "up" relay answers a REQ with every stored   *)
(* event the filter matches, in any order, and then EOSE; a "down" relay   *)
(* refuses the connection; a "silent" relay accepts it and never answers   *)
(* (the 5 s read watchdog fires); a "rogue" relay answers with every event *)
(* it stores, whatever the filter asked for; a "stream" relay sends frames  *)
(* without an event for ever and never EOSE.                               *)
(***************************************************************************)
Relays == {"A", "B", "C"}

\* the relay list of the receiver, the fallback list of fetch_chunks
relay_urls == <<"A", "B", "C">>

\* The chunked crash report of the scenario: 110 KiB, three chunks.
FetchPayload == BCat(Run(0, 60000), Run(1, 110 * 1024 - 60000))

FetchChunks == chunk_payload(FetchPayload).chunks

ChunkIds == [i \in 1..Len(FetchChunks) |-> [event_id |-> i - 1]]

\* the kind 10422 event published for chunk position i (1-based)
ChunkEvent(i) ==
    [id |-> ChunkIds[i], kind |-> KIND_CHUNK, content |-> FetchChunks[i]]

\* events no manifest asked for: two chunks whose index is out of range, and
\* a chunk that claims index 0 with other data
StrayEvents ==
    {[id |-> [event_id |-> 100], kind |-> KIND_CHUNK,
      content |-> [FetchChunks[1] EXCEPT !.index = Len(FetchChunks)]],
     [id |-> [event_id |-> 102], kind |-> KIND_CHUNK,
      content |-> [FetchChunks[1] EXCEPT !.index = Len(FetchChunks) + 1]],
     [id |-> [event_id |-> 101], kind |-> KIND_CHUNK,
      content |-> [FetchChunks[2] EXCEPT !.index = 0]]}

\* ManifestPayload with chunk_ids and chunk_relays filled in by the sender
FetchManifest(chunk_relays) ==
    [chunk_payload(FetchPayload).manifest EXCEPT
        !.chunk_ids = ChunkIds, !.chunk_relays = chunk_relays]

\* fetch_timeout (30 s), counted in frames without an event: so many of them
\* a relay can send before the deadline of the read loop has passed
MaxTicks == 2

IdleTask == [pc |-> "idle", ids |-> <<>>, needed |-> {}, got |-> {}, elapsed |-> 0]

\* has_hints: chunk_relays is Some and not empty
has_hints(chunk_relays) ==
    IF chunk_relays = None THEN FALSE ELSE DOMAIN chunk_relays.some # {}

\* relay_to_chunks: the chunk ids whose first hint is `relay`, in list order
RECURSIVE HintedIds(_, _, _, _)
HintedIds(chunk_ids, chunk_relays, relay, i) ==
    IF i > Len(chunk_ids) THEN <<>>
    ELSE IF /\ chunk_ids[i] \in DOMAIN chunk_relays
            /\ chunk_relays[chunk_ids[i]] # <<>>
            /\ Head(chunk_relays[chunk_ids[i]]) = relay
         THEN <<chunk_ids[i]>> \o HintedIds(chunk_ids, chunk_relays, relay, i + 1)
         ELSE HintedIds(chunk_ids, chunk_relays, relay, i + 1)

\* the ids a task still needs: event_ids.iter().enumerate()
\*     .filter(|(i, _)| !current.contains_key(&(*i as u32)))
needed_ids(event_ids, current) ==
    {event_ids[k] : k \in {j \in 1..Len(event_ids) : (j - 1) \notin DOMAIN current}}

\* the final loop of fetch_chunks: chunks in index order, or the first gap
ordered_chunks(final_chunks, expected_count) ==
    LET missing == {i \in 0..(expected_count - 1) : i \notin DOMAIN final_chunks}
    IN  IF missing # {}
        THEN [ok |-> FALSE, err |-> "Missing chunk at index",
              index |-> CHOOSE i \in missing : \A j \in missing : i <= j]
        ELSE [ok |-> TRUE,
              chunks |-> [i \in 1..expected_count |-> final_chunks[i - 1]]]

\* a map that keeps nothing but the chunk just read
insert_alone(current, chunk) ==
    [i \in {chunk.index} |-> chunk]

\* if !current.contains_key(&index) { current.insert(index, chunk) }
insert_chunk(current, chunk) ==
    IF chunk.index \in DOMAIN current THEN current
    ELSE [i \in DOMAIN current \cup {chunk.index} |->
            IF i = chunk.index THEN chunk ELSE current[i]]

EmptyMap == [i \in {} |-> Null]

AllDone == \A r \in Relays : task[r].pc \in {"idle", "done"}

\* fetch_chunks up to the first spawn
FetchBegin ==
    /\ fpc = "start"
    /\ IF fmanifest.chunk_ids = <<>>
       THEN /\ fres' = [ok |-> TRUE, chunks |-> <<>>]
            /\ fpc' = "returned"
            /\ UNCHANGED task
       ELSE IF has_hints(fmanifest.chunk_relays)
       THEN /\ task' = [r \in Relays |->
                 LET ids == HintedIds(fmanifest.chunk_ids, fmanifest.chunk_relays.some, r, 1)
                 IN  IF ids = <<>> THEN IdleTask
                     ELSE [pc |-> "connect", ids |-> ids, needed |-> {}, got |-> {}, elapsed |-> 0]]
            /\ fpc' = "hinted"
            /\ UNCHANGED fres
       ELSE /\ task' = [r \in Relays |->
                 [pc |-> "connect", ids |-> fmanifest.chunk_ids,
                  needed |-> {}, got |-> {}, elapsed |-> 0]]
            /\ fpc' = "fallback"
            /\ UNCHANGED fres
    /\ UNCHANGED <<fmanifest, holds, mode, fchunks, fout>>

\* connect_async under the 10 s timeout
TaskConnect(r) ==
    /\ task[r].pc = "connect"
    /\ task' = [task EXCEPT ![r].pc = IF mode[r] = "down" THEN "done" ELSE "needed"]
    /\ UNCHANGED <<fmanifest, holds, mode, fpc, fchunks, fres, fout>>

\* "Check which chunks we still need", then send the REQ
TaskRequest(r) ==
    /\ task[r].pc = "needed"
    /\ LET needed == needed_ids(task[r].ids, fchunks)
       IN  task' = [task EXCEPT ![r].needed = needed,
                                ![r].pc = IF needed = {} THEN "done" ELSE "loop"]
    /\ UNCHANGED <<fmanifest, holds, mode, fpc, fchunks, fres, fout>>

\* top of the read loop: `while start.elapsed() < fetch_timeout`, then "Check
\* if we have all chunks"
TaskCheck(r) ==
    /\ task[r].pc = "loop"
    /\ task' = [task EXCEPT ![r].pc =
                  IF ~(task[r].elapsed < MaxTicks) THEN "done"
                  ELSE IF Cardinality(DOMAIN fchunks) >= Len(fmanifest.chunk_ids)
                  THEN "done" ELSE "read"]
    /\ UNCHANGED <<fmanifest, holds, mode, fpc, fchunks, fres, fout>>

\* the events relay r has still to send on this subscription
Pending(r) ==
    {e \in holds[r] : mode[r] = "rogue" \/ (e.id \in task[r].needed /\ e.kind = KIND_CHUNK)}
    \ task[r].got

\* an EVENT frame arrives: the chunk goes into the shared map by its index
TaskEvent(r) ==
    /\ task[r].pc = "read"
    /\ mode[r] \in {"up", "rogue"}
    /\ \E e \in Pending(r) :
          /\ fchunks' = insert_chunk(fchunks, e.content)
          /\ task' = [task EXCEPT ![r].got = @ \cup {e}, ![r].pc = "loop"]
    /\ UNCHANGED <<fmanifest, holds, mode, fpc, fres, fout>>

\* EOSE after the stored events, or the read watchdog on a silent relay:
\* the loop is left and the subscription closed
TaskEnd(r) ==
    /\ task[r].pc = "read"
    /\ \/ mode[r] \in {"up", "rogue"} /\ Pending(r) = {}
       \/ mode[r] = "silent"
    /\ task' = [task EXCEPT ![r].pc = "done"]
    /\ UNCHANGED <<fmanifest, holds, mode, fpc, fchunks, fres, fout>>

\* a frame that is no EVENT and no EOSE, or that does not parse, from a relay
\* that streams such frames without end: `continue`, and time has passed
TaskNoise(r) ==
    /\ task[r].pc = "read"
    /\ mode[r] = "stream"
    /\ task' = [task EXCEPT ![r].pc = "loop", ![r].elapsed = @ + 1]
    /\ UNCHANGED <<fmanifest, holds, mode, fpc, fchunks, fres, fout>>

\* `expected_count - current_count` on usize: the difference is a usize iff
\* current_count <= expected_count; otherwise the subtraction panics where
\* overflow checks are compiled in and wraps where they are not
sub_fits(expected_count, current_count) == current_count <= expected_count

\* the hinted tasks are joined: return, or count the missing chunks (only
\* printed) and fall back to all relays
HintedJoin ==
    /\ fpc = "hinted"
    /\ AllDone
    /\ IF Cardinality(DOMAIN fchunks) = Len(fmanifest.chunk_ids)
       THEN /\ fres' = ordered_chunks(fchunks, Len(fmanifest.chunk_ids))
            /\ fpc' = "returned"
            /\ UNCHANGED task
       ELSE \E overflow_checks \in BOOLEAN :
              IF ~sub_fits(Len(fmanifest.chunk_ids), Cardinality(DOMAIN fchunks))
                 /\ overflow_checks
              THEN /\ fpc' = "panicked"
                   /\ UNCHANGED <<task, fres>>
              ELSE /\ task' = [r \in Relays |->
                        [pc |-> "connect", ids |-> fmanifest.chunk_ids,
                         needed |-> {}, got |-> {}, elapsed |-> 0]]
                   /\ fpc' = "fallback"
                   /\ UNCHANGED fres
    /\ UNCHANGED <<fmanifest, holds, mode, fchunks, fout>>

\* the fallback tasks are joined: "Extract results"
FallbackJoin ==
    /\ fpc = "fallback"
    /\ AllDone
    /\ fres' = IF Cardinality(DOMAIN fchunks) # Len(fmanifest.chunk_ids)
               THEN [ok |-> FALSE, err |-> "Missing chunks"]
               ELSE ordered_chunks(fchunks, Len(fmanifest.chunk_ids))
    /\ fpc' = "returned"
    /\ UNCHANGED <<fmanifest, holds, mode, task, fchunks, fout>>

\* handle_message_for_storage: "Reassemble the payload"
FetchReassemble ==
    /\ fpc = "returned"
    /\ fres.ok
    /\ fout' = reassemble_payload(fmanifest, fres.chunks)
    /\ fpc' = "reassembled"
    /\ UNCHANGED <<fmanifest, holds, mode, task, fchunks, fres>>

FetchStep ==
    \/ FetchBegin
    \/ \E r \in Relays : TaskConnect(r) \/ TaskRequest(r) \/ TaskCheck(r)
                            \/ TaskEvent(r) \/ TaskEnd(r)
    \/ HintedJoin
    \/ FallbackJoin
    \/ FetchReassemble

\* Where the chunk events were published: chunk position -> set of relays.
Holders == {{}, {"A"}, {"B"}, {"C"}}

Placements ==
    [1..Len(FetchChunks) -> Holders] \cup {[i \in 1..Len(FetchChunks) |-> Relays]}

\* all relays up, or one of them failing in its own way
Modes ==
    {[r \in Relays |-> "up"],
     [r \in Relays |-> IF r = "A" THEN "down" ELSE "up"],
     [r \in Relays |-> IF r = "C" THEN "silent" ELSE "up"],
     [r \in Relays |-> IF r = "B" THEN "rogue" ELSE "up"]}

\* chunk_relays as a sender writes it: absent, every chunk hinted at relay A,
\* or every published chunk hinted at a relay it was published to
HintChoices(place) ==
    {None,
     Some([id \in {ChunkIds[i] : i \in 1..Len(ChunkIds)} |-> <<"A">>]),
     Some([id \in {ChunkIds[i] : i \in {j \in 1..Len(ChunkIds) : place[j] # {}}} |->
        LET i == CHOOSE j \in 1..Len(ChunkIds) : ChunkIds[j] = id
        IN  IF relay_urls[i] \in place[i] THEN <<relay_urls[i]>>
            ELSE <<CHOOSE r \in place[i] : TRUE>>])}

FetchStart ==
    \E place \in Placements, m \in Modes :
      \E h \in HintChoices(place) :
        /\ fmanifest = FetchManifest(h)
        /\ holds = [r \in Relays |->
              {ChunkEvent(i) : i \in {j \in 1..Len(FetchChunks) : r \in place[j]}}
              \cup (IF m[r] = "rogue" THEN StrayEvents ELSE {})]
        /\ mode = m
        /\ fpc = "start"
        /\ task = [r \in Relays |-> IdleTask]
        /\ fchunks = EmptyMap
        /\ fres = Null
        /\ fout = Null

FetchIdle ==
    /\ fmanifest = Null
    /\ holds = [r \in Relays |-> {}]
    /\ mode = [r \in Relays |-> "up"]
    /\ fpc = "idle"
    /\ task = [r \in Relays |-> IdleTask]
    /\ fchunks = EmptyMap
    /\ fres = Null
    /\ fout = Null

(***************************************************************************)
(* Termination scenario: the chunks on relay A, on A and B, or one nowhere, *)
(* with one relay that fails, streams or sends what nobody asked for.      *)
(***************************************************************************)
LivePlacements ==
    {[i \in 1..Len(FetchChunks) |-> {"A"}],
     [i \in 1..Len(FetchChunks) |-> IF i = 1 THEN {} ELSE {"B"}],
     [i \in 1..Len(FetchChunks) |-> IF i = 1 THEN {"A"} ELSE {"B"}]}

LiveModes ==
    {[r \in Relays |-> IF r = "A" THEN how ELSE "up"]
        : how \in {"down", "silent", "stream"}}
    \cup {[r \in Relays |-> IF r = "B" THEN "rogue" ELSE "up"],
          [r \in Relays |-> "stream"]}

FetchLiveStart ==
    \E place \in LivePlacements, m \in LiveModes :
      \E h \in HintChoices(place) :
        /\ fmanifest = FetchManifest(h)
        /\ holds = [r \in Relays |->
              {ChunkEvent(i) : i \in {j \in 1..Len(FetchChunks) : r \in place[j]}}
              \cup (IF m[r] = "rogue" THEN StrayEvents ELSE {})]
        /\ mode = m
        /\ fpc = "start"
        /\ task = [r \in Relays |-> IdleTask]
        /\ fchunks = EmptyMap
        /\ fres = Null
        /\ fout = Null

FetchLiveStep == FetchStep \/ \E r \in Relays : TaskNoise(r)

\* read.next() under the 5 s watchdog returns: a frame, the end of the
\* stream or the expiry
TaskRead(r) == TaskEvent(r) \/ TaskEnd(r) \/ TaskNoise(r)

\* the runtime runs every task that can run, and every timer expires
FetchFairness ==
    /\ WF_fetchVars(FetchBegin) /\ WF_fetchVars(HintedJoin) /\ WF_fetchVars(FallbackJoin)
    /\ \A r \in Relays :
          /\ WF_fetchVars(TaskConnect(r)) /\ WF_fetchVars(TaskRequest(r))
          /\ WF_fetchVars(TaskCheck(r)) /\ WF_fetchVars(TaskRead(r))

(***************************************************************************)
(* storage.rs: parse_crash_content.                                        *)
(*                                                                         *)
(* A string is a sequence of tokens.  A word token is a maximal run of     *)
(* alphanumeric characters, written as a stem and an ending that is        *)
(* "Exception", "Error" or empty (stems hold neither of the two); a sep    *)
(* token is one non-alphanumeric ASCII character; a wide token is one      *)
(* non-alphanumeric character of more than one byte in UTF-8, such as a    *)
(* typographic quotation mark.                                             *)
(***************************************************************************)
W(stem, tail) == [t |-> "w", s |-> stem, tail |-> tail]
Sep(c) == [t |-> "sep", s |-> c, tail |-> ""]
Wide(c) == [t |-> "wide", s |-> c, tail |-> ""]

SP == Sep(" ")
NL == Sep("\n")
DOT == Sep(".")
COLON == Sep(":")
DASH == Sep("-")

\* one character of w bytes repeated n times, as in "x".repeat(2000)
Rep(c, w, n) == [t |-> "rep", s |-> c, tail |-> "", w |-> w, n |-> n]

\* a run of ASCII control characters, named by its bytes
Ctl(bytes) ==
    [t |-> "ctl", tail |-> "",
     s |-> ToString([i \in 1..Len(bytes) |-> <<bytes[i].b, bytes[i].n>>])]

\* a slice that does not start on a character boundary
Panic == [panic |-> TRUE]

\* str::lines
RECURSIVE lines(_)
lines(s) ==
    LET S == {i \in 1..Len(s) : s[i] = NL}
    IN  IF s = <<>> THEN <<>>
        ELSE IF S = {} THEN <<s>>
        ELSE LET i == CHOOSE j \in S : \A k \in S : j <= k
             IN  <<SubSeq(s, 1, i - 1)>> \o lines(SubSeq(s, i + 1, Len(s)))

RECURSIVE trim_start(_)
trim_start(s) ==
    IF s # <<>> /\ Head(s) \in {SP, NL} THEN trim_start(Tail(s)) ELSE s

RECURSIVE trim_end(_)
trim_end(s) ==
    IF s # <<>> /\ s[Len(s)] \in {SP, NL}
    THEN trim_end(SubSeq(s, 1, Len(s) - 1)) ELSE s

\* str::trim
trim(s) == trim_end(trim_start(s))

\* str::find of one character: its position, 0 for None
find(s, tok) ==
    LET S == {i \in 1..Len(s) : s[i] = tok}
    IN  IF S = {} THEN 0 ELSE CHOOSE i \in S : \A j \in S : i <= j

\* str::rfind of one character
rfind(s, tok) ==
    LET S == {i \in 1..Len(s) : s[i] = tok}
    IN  IF S = {} THEN 0 ELSE CHOOSE i \in S : \A j \in S : i >= j

\* str::find("Exception"): the first word with that ending
find_word(s, ending) ==
    LET S == {i \in 1..Len(s) : s[i].tail = ending}
    IN  IF S = {} THEN 0 ELSE CHOOSE i \in S : \A j \in S : i <= j

\* str::contains("Exception"), str::contains("Error")
contains_word(s, ending) == find_word(s, ending) # 0

ends_with(s, ending) == s # <<>> /\ s[Len(s)].tail = ending

\* extract_exception_name
extract_exception_name(s) ==
    LET line      == trim(s)
        colon_pos == find(line, COLON)
        prefix    == SubSeq(line, 1, colon_pos - 1)
        pos       == find_word(line, "Exception")
    IN  IF /\ colon_pos # 0
           /\ \/ find(prefix, DOT) # 0
              \/ ends_with(prefix, "Exception")
              \/ ends_with(prefix, "Error")
        THEN Some(SubSeq(prefix, rfind(prefix, DOT) + 1, Len(prefix)))
        ELSE IF \/ line # <<>> /\ Head(line) = W("", "Error")
                \/ \E i \in 1..(Len(line) - 1) :
                      line[i].tail = "Error" /\ line[i + 1] = COLON
        THEN Some(<<W("", "Error")>>)
        ELSE IF pos # 0
        THEN IF pos > 1 /\ line[pos - 1].t = "wide"
             THEN Panic
             ELSE Some(<<line[pos]>>)
        ELSE None

\* extract_exception_type(message, stack)
extract_exception_type(message, stack) ==
    LET first == IF lines(stack.some) = <<>> THEN <<>> ELSE lines(stack.some)[1]
        exc   == IF stack = None THEN None ELSE extract_exception_name(first)
    IN  IF exc # None THEN exc
        ELSE IF message # None THEN extract_exception_name(message.some)
        ELSE None

\* json.get(key).and_then(|v| v.as_str())
get_str(json, key) ==
    IF "obj" \notin DOMAIN json THEN None
    ELSE IF key \notin DOMAIN json.obj THEN None
    ELSE IF "str" \notin DOMAIN json.obj[key] THEN None
    ELSE Some(json.obj[key].str)

\* the `for line in &lines` loop of the markdown branch
RECURSIVE scan_lines(_, _, _)
scan_lines(ls, i, acc) ==
    IF i > Len(ls) \/ acc.exception_type = Panic THEN acc
    ELSE LET line == ls[i]
             hit  == /\ contains_word(line, "Exception") \/ contains_word(line, "Error")
                     /\ acc.exception_type = None
             ver  == /\ find(line, DASH) # 0
                     /\ \E j \in 1..Len(line) :
                           line[j].t = "w" /\ line[j].s \in {"RELEASE", "DEBUG"}
         IN  scan_lines(ls, i + 1,
                [exception_type |-> IF hit THEN extract_exception_name(line)
                                    ELSE acc.exception_type,
                 message |-> IF hit THEN Some(line) ELSE acc.message,
                 app_version |->
                    IF ver THEN Some(trim(SubSeq(line, 1, find(line, DASH) - 1)))
                    ELSE acc.app_version])

\* parse_crash_content: a ParsedCrash, or Panic
parse_crash_content(content) ==
    IF "json" \in DOMAIN content
    THEN LET json    == content.json
             message == get_str(json, "message")
             stack   == get_str(json, "stack")
             exc     == extract_exception_type(message, stack)
         IN  IF exc = Panic THEN Panic
             ELSE [message |-> message,
                   stack_trace |-> stack,
                   exception_type |-> exc,
                   environment |-> get_str(json, "environment"),
                   release |-> get_str(json, "release"),
                   app_name |-> None,
                   app_version |-> None]
    ELSE LET ls  == lines(content.text)
             acc == scan_lines(ls, 1, [exception_type |-> None, message |-> None,
                                       app_version |-> None])
         IN  IF acc.exception_type = Panic THEN Panic
             ELSE [message |-> acc.message,
                   stack_trace |-> Some(content.text),
                   exception_type |-> acc.exception_type,
                   environment |-> None,
                   release |-> None,
                   app_name |-> IF ls = <<>> THEN None ELSE Some(ls[1]),
                   app_version |-> acc.app_version]

(***************************************************************************)
(* compression.rs and the payloads of transport.rs, on content values.     *)
(*                                                                         *)
(* A content string is [text |-> tokens] when it is not JSON and           *)
(* [json |-> value] when it is; an object value is [obj |-> record].       *)
(***************************************************************************)

\* no envelope at all
compress_plain(plaintext) == plaintext

\* compress_payload: {"v":1,"compression":"gzip","payload":"<base64>"}
compress_payload(plaintext) ==
    [json |-> [obj |-> [v |-> 1, compression |-> "gzip",
                        payload |-> [gzb64 |-> plaintext]]]]

\* serde_json::from_str::<CompressedEnvelope>: v is a u8, compression and
\* payload are strings
CompressedEnvelope_from_json(json) ==
    IF /\ "json" \in DOMAIN json
       /\ "obj" \in DOMAIN json.json
       /\ {"v", "compression", "payload"} \subseteq DOMAIN json.json.obj
       /\ json.json.obj.v \in 0..255
       /\ "num" \notin DOMAIN json.json.obj.payload
    THEN [ok |-> TRUE, payload |-> json.json.obj]
    ELSE Err("serde_json::Error")

\* decompress_payload.  A payload string is [gzb64 |-> s], the base64 of the
\* gzip of the string s; [gzraw |-> bytes], the base64 of the gzip of bytes
\* that are not UTF-8; [b64 |-> bytes], the base64 of bytes that are not
\* gzip; or [str |-> text], not base64.
decompress_payload(envelope) ==
    IF "json" \notin DOMAIN envelope THEN [ok |-> TRUE, text |-> envelope]
    ELSE IF "obj" \notin DOMAIN envelope.json THEN [ok |-> TRUE, text |-> envelope]
    ELSE IF "compression" \notin DOMAIN envelope.json.obj
    THEN [ok |-> TRUE, text |-> envelope]
    ELSE IF ~CompressedEnvelope_from_json(envelope).ok
    THEN [ok |-> TRUE, text |-> envelope]
    ELSE LET encoded == CompressedEnvelope_from_json(envelope).payload.payload
         IN  IF "gzb64" \in DOMAIN encoded THEN [ok |-> TRUE, text |-> encoded.gzb64]
             ELSE IF "gzraw" \in DOMAIN encoded THEN Err("Utf8Failed")
             ELSE IF "b64" \in DOMAIN encoded THEN Err("CompressionFailed")
             ELSE Err("Base64DecodeFailed")

\* the content as it came, never decompressed
keep_raw(content) == content

\* decompress_payload(..).unwrap_or_else(|_| original)
decompress_or_raw(content) ==
    IF decompress_payload(content).ok
    THEN decompress_payload(content).text ELSE content

\* DirectPayload::from_json
DirectPayload_from_json(json) ==
    IF /\ "json" \in DOMAIN json
       /\ "obj" \in DOMAIN json.json
       /\ {"v", "crash"} \subseteq DOMAIN json.json.obj
       /\ json.json.obj.v \in 0..255
    THEN [ok |-> TRUE, payload |-> json.json.obj]
    ELSE Err("serde_json::Error")

\* ManifestPayload::from_json
ManifestPayload_from_json(json) ==
    IF /\ "json" \in DOMAIN json
       /\ "obj" \in DOMAIN json.json
       /\ {"v", "root_hash", "total_size", "chunk_count", "chunk_ids"}
             \subseteq DOMAIN json.json.obj
    THEN [ok |-> TRUE, payload |-> json.json.obj]
    ELSE Err("serde_json::Error")

\* String::from_utf8_lossy on the reassembled bytes
from_utf8_lossy(bytes) == [text |-> <<Ctl(bytes)>>]

(***************************************************************************)
(* main.rs: the receiver.  A gift wrap is sealed to a public key; NIP-44   *)
(* is ideal: the two layers open under the key they were sealed to and     *)
(* under no other.                                                         *)
(***************************************************************************)
ReceiverKey == "receiver"

\* unwrap_gift_wrap
unwrap_gift_wrap(keys, gift_wrap) ==
    IF gift_wrap.to = keys THEN [ok |-> TRUE, rumor |-> gift_wrap.rumor]
    ELSE Err("nip44::decrypt")

\* the u16 the handler compares: `rumor.kind as u16`
rumor_kind_of(rumor) == rumor.kind % 65536

\* the crash named after the rumor
ReceivedCrash_by_rumor(event, rumor, content) ==
    [event_id |-> rumor.id, sender_pubkey |-> rumor.pubkey,
     created_at |-> rumor.created_at, content |-> content]

ReceivedCrash(event, rumor, content) ==
    [event_id |-> event.id, sender_pubkey |-> rumor.pubkey,
     created_at |-> rumor.created_at, content |-> content]

\* the id is not recorded
seen_unchanged(seen, id) == seen

\* seen.insert(event.id)
seen_insert(seen, id) == seen \cup {id}

\* The head of handle_message_for_storage and of handle_message: the frame
\* text is parsed as a JSON array, msg[0] must be the string "EVENT" and msg[2]
\* must decode as an Event.  A JSON array is [arr |-> elements]; an element is
\* [str |-> s], [num |-> n], [obj |-> fields] or, for an object with the
\* fields of an Event, [event |-> gift wrap].
event_of_frame(text) ==
    IF "json" \notin DOMAIN text THEN None
    ELSE IF "arr" \notin DOMAIN text.json THEN None
    ELSE LET msg == text.json.arr
         IN  IF Len(msg) < 3 THEN None
             ELSE IF "str" \notin DOMAIN msg[1] THEN None
             ELSE IF msg[1].str # "EVENT" THEN None
             ELSE IF "event" \notin DOMAIN msg[3] THEN None
             ELSE Some(msg[3].event)

\* handle_message_for_storage from the dedup on, for the Event of the frame;
\* `fetched` is what fetch_chunks does if the rumor is a manifest: it returns
\* Ok or Err, or panics in the subtraction of the hinted join
handle_message_for_storage(event, keys, seen, fetched) ==
    IF event.id \in seen THEN [seen |-> seen, crash |-> None]
    ELSE
    LET seen2        == seen_insert(seen, event.id)
        unwrapped    == unwrap_gift_wrap(keys, event)
        rumor        == unwrapped.rumor
        rumor_kind   == rumor_kind_of(rumor)
        decompressed == decompress_or_raw(rumor.content)
        manifest     == ManifestPayload_from_json(decompressed)
        reassembled  == reassemble_payload(manifest.payload, fetched.chunks)
        direct       == DirectPayload_from_json(decompressed)
    IN  IF ~unwrapped.ok THEN [seen |-> seen2, crash |-> None]
        ELSE IF is_chunked_kind(rumor_kind)
        THEN IF ~manifest.ok THEN [seen |-> seen2, crash |-> None]
             ELSE IF "panic" \in DOMAIN fetched
             THEN [seen |-> seen2, crash |-> None, panic |-> TRUE]
             ELSE IF ~fetched.ok THEN [seen |-> seen2, crash |-> None]
             ELSE IF ~reassembled.ok THEN [seen |-> seen2, crash |-> None]
             ELSE [seen |-> seen2,
                   crash |-> Some(ReceivedCrash(event, rumor,
                      decompress_or_raw(from_utf8_lossy(reassembled.bytes))))]
        ELSE [seen |-> seen2,
              crash |-> Some(ReceivedCrash(event, rumor,
                 IF is_crash_report_kind(rumor_kind)
                 THEN IF direct.ok THEN [json |-> direct.payload.crash]
                      ELSE decompressed
                 ELSE decompressed))]

\* handle_message of the listen command: dedup, unwrap, print
handle_message(event, keys, seen) ==
    IF event.id \in seen THEN seen ELSE seen_insert(seen, event.id)

\* mpsc::channel::<ReceivedCrash>(100)
QUEUE_CAPACITY == 100

(***************************************************************************)
(* Receiver scenario: two relays hold the same gift wraps and deliver them *)
(* in any order, any number of times, and may close or fail at any time.   *)
(***************************************************************************)
MaxFrames == 4

ServeRelays == {"A", "B"}

\* "boom" and "at x.rs:1"
BoomCrash ==
    [obj |-> [message |-> [str |-> <<W("boom", "")>>],
              stack |-> [str |-> <<W("at", ""), SP, W("x", ""), DOT, W("rs", ""),
                                   COLON, W("1", "")>>]]]

\* a legacy report whose exception name stands in typographic quotes
QuotedText ==
    [text |-> <<Wide("ldquo"), W("IllegalState", "Exception"), Wide("rdquo"),
                SP, W("thrown", "")>>]

DirectJson(crash) == [json |-> [obj |-> [v |-> 1, crash |-> crash]]]

Rumor(kind, content) ==
    [id |-> ToString(Sha256(<<0, "sender", 999, kind, content>>)),
     pubkey |-> "sender", created_at |-> 999, kind |-> kind, content |-> content]

AllWraps ==
    {[id |-> "direct", to |-> ReceiverKey,
      rumor |-> Rumor(KIND_DIRECT, DirectJson(BoomCrash))],
     [id |-> "gzip", to |-> ReceiverKey,
      rumor |-> Rumor(KIND_DIRECT, compress_payload(DirectJson(BoomCrash)))],
     [id |-> "chunk", to |-> ReceiverKey,
      rumor |-> Rumor(KIND_CHUNK, [json |-> [obj |-> FetchChunks[1]]])],
     [id |-> "foreign", to |-> "other",
      rumor |-> Rumor(KIND_DIRECT, DirectJson(BoomCrash))],
     [id |-> "quoted", to |-> ReceiverKey,
      rumor |-> Rumor(KIND_LEGACY, QuotedText)],
     [id |-> "manifest", to |-> ReceiverKey,
      rumor |-> Rumor(KIND_MANIFEST, [json |-> [obj |-> FetchManifest(None)]])]}

\* what fetch_chunks can return for the manifest
FetchOutcome(how) ==
    CASE how = "missing" -> Err("Missing chunks")
      [] how = "chunks"  -> [ok |-> TRUE, chunks |-> FetchChunks]
      [] how = "other"   ->     \* a list that does not reassemble
            [ok |-> TRUE, chunks |-> [FetchChunks EXCEPT ![1].data = FetchChunks[2].data]]
      [] how = "panic"   -> [ok |-> FALSE, panic |-> TRUE]

\* with relays that send what was asked for, and with relays that send chunks
\* nobody asked for
FetchReturns == {"missing", "chunks"}
FetchOutcomes == {"missing", "chunks", "other", "panic"}

\* ["EVENT", "bugstr-listen", <event>]
EventText(event) ==
    [json |-> [arr |-> <<[str |-> "EVENT"], [str |-> "bugstr-listen"],
                         [event |-> event]>>]]

\* frames that carry no event: not JSON, not an array, EOSE (two elements),
\* OK (first element not "EVENT"), a first element that is no string, and an
\* EVENT frame whose third element is not an Event
OtherTexts ==
    {[text |-> <<W("ping", "")>>],
     [json |-> [obj |-> [v |-> 1]]],
     [json |-> [arr |-> <<[str |-> "EOSE"], [str |-> "bugstr-listen"]>>]],
     [json |-> [arr |-> <<[str |-> "OK"], [str |-> "direct"], [str |-> "true"]>>]],
     [json |-> [arr |-> <<[num |-> 1], [num |-> 2], [num |-> 3]>>]],
     [json |-> [arr |-> <<[str |-> "EVENT"], [str |-> "bugstr-listen"],
                          [obj |-> [id |-> [num |-> 7]]]>>]]}

\* Utc::now().timestamp()
Times == {1000}

\* a relay task before connect_async; `event` is the id of the EVENT frame the
\* handler was last called with on the connection
NewTask == [pc |-> "connect", seen |-> {}, crash |-> None, event |-> None]

ServeStart ==
    /\ cmd \in {"serve", "listen"}
    /\ proc = "running"
    /\ stored \in {S \in SUBSET AllWraps : Cardinality(S) \in 1..2}
    /\ net = [noise |-> {}, fetch |-> FetchReturns]
    /\ sub = [r \in ServeRelays |-> NewTask]
    /\ frames = 0
    /\ queue = <<>>
    /\ worker = [pc |-> IF cmd = "serve" THEN "recv" ELSE "none",
                 crash |-> None, report |-> None]

\* Routing scenario: gift wraps of every route through the handler.  A
\* rumor's kind is a u64.
KIND_WIDE == KIND_MANIFEST + 65536

RoutingWraps ==
    {[id |-> "direct", to |-> ReceiverKey,
      rumor |-> Rumor(KIND_DIRECT, DirectJson(BoomCrash))],
     [id |-> "twin", to |-> ReceiverKey,
      rumor |-> Rumor(KIND_DIRECT, DirectJson(BoomCrash))],
     [id |-> "legacy", to |-> ReceiverKey,
      rumor |-> Rumor(KIND_LEGACY, DirectJson(BoomCrash))],
     [id |-> "wide", to |-> ReceiverKey,
      rumor |-> Rumor(KIND_WIDE, [json |-> [obj |-> FetchManifest(None)]])],
     [id |-> "manifest", to |-> ReceiverKey,
      rumor |-> Rumor(KIND_MANIFEST, [json |-> [obj |-> FetchManifest(None)]])],
     [id |-> "badmanifest", to |-> ReceiverKey,
      rumor |-> Rumor(KIND_MANIFEST, DirectJson(BoomCrash))],
     [id |-> "foreign", to |-> "other",
      rumor |-> Rumor(KIND_DIRECT, DirectJson(BoomCrash))]}

\* the pairs of gift wraps the relays hold together
RoutingPairs ==
    {{"direct", "twin"}, {"direct", "legacy"}, {"manifest", "direct"},
     {"foreign", "legacy"}}

RoutingStart ==
    /\ cmd = "serve"
    /\ proc = "running"
    /\ stored \in {S \in SUBSET RoutingWraps :
                      \/ Cardinality(S) = 1
                      \/ {w.id : w \in S} \in RoutingPairs}
    /\ net = [noise |-> OtherTexts, fetch |-> FetchOutcomes]
    /\ sub = [r \in ServeRelays |-> NewTask]
    /\ frames = 0
    /\ queue = <<>>
    /\ worker = [pc |-> "recv", crash |-> None, report |-> None]

ServeIdle ==
    /\ cmd = "none"
    /\ proc = "none"
    /\ stored = {}
    /\ net = [noise |-> {}, fetch |-> {}]
    /\ sub = [r \in ServeRelays |-> [pc |-> "none", seen |-> {}, crash |-> None,
                                     event |-> None]]
    /\ frames = 0
    /\ queue = <<>>
    /\ worker = [pc |-> "none", crash |-> None, report |-> None]

\* where a subscription task goes when subscribe_relay* returns: serve
\* sleeps 5 s and loops, listen's task ends
AfterReturn == IF cmd = "serve" THEN "sleep" ELSE "exited"

\* connect_async and the REQ; a fresh `seen` per call
Connect(r) ==
    /\ proc = "running"
    /\ sub[r].pc = "connect"
    /\ \E connected \in BOOLEAN :
          sub' = [sub EXCEPT ![r] =
                    [pc |-> IF connected THEN "read" ELSE AfterReturn,
                     seen |-> {}, crash |-> None, event |-> None]]
    /\ UNCHANGED <<cmd, proc, stored, net, frames, queue, worker, db>>

\* the task after handle_message_for_storage returned h for the event, or
\* panicked: a panic ends the task (panic=unwind) or the process (panic=abort)
Handled(r, id, h) ==
    IF "panic" \in DOMAIN h
    THEN \E strategy \in {"unwind", "abort"} :
           IF strategy = "unwind"
           THEN /\ sub' = [sub EXCEPT ![r] =
                      [pc |-> "panicked", seen |-> h.seen, crash |-> None,
                       event |-> Some(id)]]
                /\ UNCHANGED proc
           ELSE /\ proc' = "aborted"
                /\ UNCHANGED sub
    ELSE /\ sub' = [sub EXCEPT ![r] =
              [pc |-> IF h.crash = None THEN "read" ELSE "send",
               seen |-> h.seen, crash |-> h.crash, event |-> Some(id)]]
         /\ UNCHANGED proc

\* the frame carried this event
Decoded(r, event) ==
    IF cmd = "serve"
    THEN \E how \in net.fetch :
           Handled(r, event.id,
                   handle_message_for_storage(event, ReceiverKey, sub[r].seen,
                                              FetchOutcome(how)))
    ELSE /\ sub' = [sub EXCEPT ![r].seen =
                      handle_message(event, ReceiverKey, sub[r].seen),
                              ![r].event = Some(event.id)]
         /\ UNCHANGED proc

\* a text frame arrives: an EVENT frame with a stored gift wrap, or a frame
\* without an event
EventFrame(r) ==
    /\ proc = "running"
    /\ sub[r].pc = "read"
    /\ frames < MaxFrames
    /\ frames' = frames + 1
    /\ \E text \in {EventText(e) : e \in stored} \cup net.noise :
          IF event_of_frame(text) = None
          THEN UNCHANGED <<sub, proc>>
          ELSE Decoded(r, event_of_frame(text).some)
    /\ UNCHANGED <<cmd, stored, net, queue, worker, db>>

\* a channel that hands out the newest crash first
Send_front(r) ==
    /\ proc = "running"
    /\ sub[r].pc = "send"
    /\ IF worker.pc = "dead"
       THEN /\ sub' = [sub EXCEPT ![r].pc = AfterReturn, ![r].crash = None]
            /\ UNCHANGED queue
       ELSE /\ Len(queue) < QUEUE_CAPACITY
            /\ queue' = <<sub[r].crash.some>> \o queue
            /\ sub' = [sub EXCEPT ![r].pc = "read", ![r].crash = None]
    /\ UNCHANGED <<cmd, proc, stored, net, frames, worker, db>>

\* tx.send(crash).await: waits for a free slot; fails once the receiver is gone
Send(r) ==
    /\ proc = "running"
    /\ sub[r].pc = "send"
    /\ IF worker.pc = "dead"
       THEN /\ sub' = [sub EXCEPT ![r].pc = AfterReturn, ![r].crash = None]
            /\ UNCHANGED queue
       ELSE /\ Len(queue) < QUEUE_CAPACITY
            /\ queue' = Append(queue, sub[r].crash.some)
            /\ sub' = [sub EXCEPT ![r].pc = "read", ![r].crash = None]
    /\ UNCHANGED <<cmd, proc, stored, net, frames, worker, db>>

\* a Close frame, a transport error or the end of the stream
Disconnect(r) ==
    /\ proc = "running"
    /\ sub[r].pc = "read"
    /\ sub' = [sub EXCEPT ![r].pc = AfterReturn]
    /\ UNCHANGED <<cmd, proc, stored, net, frames, queue, worker, db>>

\* tokio::time::sleep(5 s) is over: next round of serve's loop
Wake(r) ==
    /\ proc = "running"
    /\ sub[r].pc = "sleep"
    /\ sub' = [sub EXCEPT ![r].pc = "connect"]
    /\ UNCHANGED <<cmd, proc, stored, net, frames, queue, worker, db>>

\* the CrashReport the worker builds
Report(crash, parsed, now) ==
    [id |-> 0, event_id |-> crash.event_id, sender_pubkey |-> crash.sender_pubkey,
     received_at |-> now, created_at |-> crash.created_at,
     app_name |-> parsed.app_name, app_version |-> parsed.app_version,
     exception_type |-> parsed.exception_type, message |-> parsed.message,
     stack_trace |-> parsed.stack_trace, raw_content |-> crash.content,
     environment |-> parsed.environment, release |-> parsed.release]

\* rx.recv() and parse_crash_content.  A panic ends the worker and drops the
\* receiver with what it buffers (panic=unwind), or ends the process
\* (panic=abort).
WorkerRecv ==
    /\ proc = "running"
    /\ worker.pc = "recv"
    /\ queue # <<>>
    /\ LET crash  == Head(queue)
           parsed == parse_crash_content(crash.content)
       IN  IF parsed = Panic
           THEN \E strategy \in {"unwind", "abort"} :
                  IF strategy = "unwind"
                  THEN /\ worker' = [pc |-> "dead", crash |-> Some(crash),
                                     report |-> None]
                       /\ queue' = <<>>
                       /\ UNCHANGED proc
                  ELSE /\ proc' = "aborted"
                       /\ UNCHANGED <<worker, queue>>
           ELSE \E now \in Times :
                  /\ worker' = [pc |-> "insert", crash |-> Some(crash),
                                report |-> Some(Report(crash, parsed, now))]
                  /\ queue' = Tail(queue)
                  /\ UNCHANGED proc
    /\ UNCHANGED <<cmd, stored, net, sub, frames, db>>

\* storage.lock().await and storage.insert(&report)
WorkerInsert ==
    /\ proc = "running"
    /\ worker.pc = "insert"
    /\ db' = insert(db, worker.report.some).db
    /\ worker' = [pc |-> "recv", crash |-> None, report |-> None]
    /\ UNCHANGED <<cmd, proc, stored, net, sub, frames, queue>>

ServeStep ==
    \/ \E r \in ServeRelays : Connect(r) \/ EventFrame(r) \/ Send(r)
                                \/ Disconnect(r) \/ Wake(r)
    \/ WorkerRecv
    \/ WorkerInsert

(***************************************************************************)
(* compression.rs: the threshold policy, and a scenario that applies the   *)
(* three functions to a string and feeds results back as inputs.           *)
(***************************************************************************)
DEFAULT_THRESHOLD == 1024

\* str::len of a string of repeated characters, separators and wide
\* characters: its length in bytes
RECURSIVE StrLen(_)
StrLen(s) ==
    IF s = <<>> THEN 0
    ELSE (CASE Head(s).t = "rep" -> Head(s).w * Head(s).n
            [] Head(s).t = "sep" -> 1
            [] Head(s).t = "wide" -> 3)
         + StrLen(Tail(s))

\* a policy that leaves a string of exactly the threshold alone
should_compress_strict(plaintext, threshold) ==
    StrLen(plaintext.text) > threshold

\* should_compress
should_compress(plaintext, threshold) ==
    StrLen(plaintext.text) >= threshold

\* maybe_compress_payload
maybe_compress_payload(plaintext, threshold) ==
    IF should_compress(plaintext, threshold)
    THEN [ok |-> TRUE, text |-> compress_payload(plaintext)]
    ELSE [ok |-> TRUE, text |-> plaintext]

MaxOps == 2

Repeated(c, w, n) == [text |-> IF n = 0 THEN <<>> ELSE <<Rep(c, w, n)>>]

\* strings whose length the policy can be asked about
MeasuredStrings ==
    {Repeated("x", 1, n) : n \in {0, 3, 4, 5, 1023, 1024, 1025, 2000}}
    \cup {Repeated("e-acute", 2, n) : n \in {511, 512}}
    \cup {[text |-> <<Wide("ldquo"), Rep("x", 1, 1021)>>]}

Envelope(v, compression, encoded) ==
    [json |-> [obj |-> [v |-> v, compression |-> compression, payload |-> encoded]]]

ZipInputs ==
    MeasuredStrings
    \cup {[text |-> <<W("This", ""), SP, W("is", ""), SP, W("not", ""), SP,
                     W("compressed", "")>>],
          [text |-> <<Sep("{"), W("compression", "")>>],
          DirectJson(BoomCrash),
          compress_payload(Repeated("x", 1, 4)),
          Envelope(1, "zstd", [gzb64 |-> Repeated("x", 1, 4)]),
          Envelope(1, "none", [str |-> <<W("hello", "")>>]),
          Envelope(1, "gzip", [b64 |-> Run(7, 10)]),
          Envelope(1, "gzip", [gzraw |-> Run(255, 2)]),
          Envelope(256, "gzip", [gzb64 |-> Repeated("x", 1, 4)]),
          Envelope(1, "gzip", [num |-> 5]),
          [json |-> [obj |-> [compression |-> "gzip"]]]}

Thresholds == {0, 4, DEFAULT_THRESHOLD}

ZipStart ==
    /\ zin \in ZipInputs
    /\ zfrom = None
    /\ zt \in Thresholds
    /\ zop = "none"
    /\ zout = Null
    /\ zn = 0

ZipIdle ==
    /\ zin = Null
    /\ zfrom = None
    /\ zt = 0
    /\ zop = "idle"
    /\ zout = Null
    /\ zn = 0

Compress ==
    /\ zop = "none"
    /\ zout' = [ok |-> TRUE, text |-> compress_payload(zin)]
    /\ zop' = "compress"
    /\ UNCHANGED <<zin, zfrom, zt, zn>>

Decompress ==
    /\ zop = "none"
    /\ zout' = decompress_payload(zin)
    /\ zop' = "decompress"
    /\ UNCHANGED <<zin, zfrom, zt, zn>>

MaybeCompress ==
    /\ zop = "none"
    /\ zin \in MeasuredStrings
    /\ zout' = maybe_compress_payload(zin, zt)
    /\ zop' = "maybe"
    /\ UNCHANGED <<zin, zfrom, zt, zn>>

\* the caller goes on with the result
Feed ==
    /\ zop \in {"compress", "decompress", "maybe"}
    /\ zout.ok
    /\ zn < MaxOps
    /\ zin' = zout.text
    /\ zfrom' = IF zop = "compress" \/ (zop = "maybe" /\ zout.text # zin)
                THEN Some(zin) ELSE None
    /\ zop' = "none"
    /\ zout' = Null
    /\ zn' = zn + 1
    /\ UNCHANGED zt

ZipStep == Compress \/ Decompress \/ MaybeCompress \/ Feed

(***************************************************************************)
(* symbolication/store.rs: MappingStore.  A string is the sequence of its  *)
(* character codes, so that validation, Version::parse and the             *)
(* lexicographic order work on the characters themselves.  A path is the   *)
(* sequence of its components below the root.                              *)
(***************************************************************************)

\* Platform::as_str
as_str(platform) ==
    IF "unknown" \in DOMAIN platform THEN platform.unknown
    ELSE CASE platform.p = "Android" -> <<97, 110, 100, 114, 111, 105, 100>>
           [] platform.p = "Electron" -> <<101, 108, 101, 99, 116, 114, 111, 110>>
           [] platform.p = "Flutter" -> <<102, 108, 117, 116, 116, 101, 114>>
           [] platform.p = "Rust" -> <<114, 117, 115, 116>>
           [] platform.p = "Go" -> <<103, 111>>
           [] platform.p = "Python" -> <<112, 121, 116, 104, 111, 110>>
           [] platform.p = "ReactNative" ->
                <<114, 101, 97, 99, 116, 45, 110, 97, 116, 105, 118, 101>>

\* str::contains
contains(s, pat) ==
    \E i \in 1..(Len(s) - Len(pat) + 1) : SubSeq(s, i, i + Len(pat) - 1) = pat

InvalidPath(name, why) == [ok |-> FALSE, err |-> "InvalidPath", name |-> name, why |-> why]

\* a validation that lets everything through
validate_nothing(component, name) == [ok |-> TRUE]

\* MappingStore::validate_path_component
validate_path_component(component, name) ==
    IF component = <<>> THEN InvalidPath(name, "cannot be empty")
    ELSE IF component = <<46>> \/ component = <<46, 46>>
    THEN InvalidPath(name, "cannot be '.' or '..'")
    ELSE IF contains(component, <<46, 46>>) THEN InvalidPath(name, "cannot contain '..'")
    ELSE IF contains(component, <<47>>) \/ contains(component, <<92>>)
    THEN InvalidPath(name, "cannot contain path separators")
    ELSE [ok |-> TRUE]

\* Path::join: a component that starts with '/' replaces the path
join(path, component) ==
    IF component # <<>> /\ Head(component) = 47 THEN <<component>>
    ELSE Append(path, component)

\* MappingStore::mapping_path
mapping_path(platform, app_id, version, filename) ==
    join(join(join(join(<<>>, as_str(platform)), app_id), version), filename)

MappingKey(platform, app_id, version) ==
    [platform |-> platform, app_id |-> app_id, version |-> version]

\* MappingStore::add_mapping: HashMap::insert replaces the entry of the key
add_mapping(cache, platform, app_id, version, path) ==
    {e \in cache : e.key # MappingKey(platform, app_id, version)}
    \cup {[key |-> MappingKey(platform, app_id, version),
           info |-> [path |-> path, platform |-> platform, app_id |-> app_id,
                     version |-> version]]}

\* the directories fs::create_dir_all makes for the parent of a path
Parents(path) == {SubSeq(path, 1, k) : k \in 1..(Len(path) - 1)}

\* MappingStore::save_mapping on a store [dirs, files, cache]; io says which
\* file system call fails, if any
save_mapping(store, platform, app_id, version, filename, content, io) ==
    LET v1 == validate_path_component(as_str(platform), "platform")
        v2 == validate_path_component(app_id, "app_id")
        v3 == validate_path_component(version, "version")
        v4 == validate_path_component(filename, "filename")
        path == mapping_path(platform, app_id, version, filename)
    IN  IF ~v1.ok THEN [store |-> store, ret |-> v1]
        ELSE IF ~v2.ok THEN [store |-> store, ret |-> v2]
        ELSE IF ~v3.ok THEN [store |-> store, ret |-> v3]
        ELSE IF ~v4.ok THEN [store |-> store, ret |-> v4]
        ELSE IF io = "create_dir_all" /\ ~(Parents(path) \subseteq store.dirs)
        THEN [store |-> store, ret |-> Err("IoError")]
        ELSE IF io # "ok"
        THEN [store |-> [store EXCEPT !.dirs = @ \cup Parents(path)],
              ret |-> Err("IoError")]
        ELSE [store |-> [dirs |-> store.dirs \cup Parents(path),
                         files |-> {f \in store.files : f.path # path}
                                   \cup {[path |-> path, content |-> content]},
                         cache |-> add_mapping(store.cache, platform, app_id,
                                               version, path)],
              ret |-> [ok |-> TRUE, path |-> path]]

IsDigit(c) == c \in 48..57

\* the index after the run of digits that starts at i
RECURSIVE DigitsEnd(_, _)
DigitsEnd(s, i) ==
    IF i <= Len(s) /\ IsDigit(s[i]) THEN DigitsEnd(s, i + 1) ELSE i

RECURSIVE Decimal(_)
Decimal(digits) ==
    IF digits = <<>> THEN 0
    ELSE 10 * Decimal(SubSeq(digits, 1, Len(digits) - 1)) + (digits[Len(digits)] - 48)

\* a numeric identifier of semver at index i: digits, no leading zero
Numeric(s, i) ==
    LET j == DigitsEnd(s, i)
    IN  IF j = i \/ (s[i] = 48 /\ j > i + 1) THEN [ok |-> FALSE, next |-> i, n |-> 0]
        ELSE [ok |-> TRUE, next |-> j, n |-> Decimal(SubSeq(s, i, j - 1))]

\* semver::Version::parse for strings of the forms that occur here: a
\* MAJOR.MINOR.PATCH triple, optionally followed by '-' and one pre-release
\* identifier of lower-case letters.  Each step takes what was parsed so far.
parse_pre(s, major, minor, patch) ==
    LET rest == SubSeq(s, patch.next, Len(s))
    IN  IF ~patch.ok THEN Err("semver::Error")
        ELSE IF rest = <<>>
        THEN [ok |-> TRUE, major |-> major.n, minor |-> minor.n, patch |-> patch.n,
              pre |-> <<>>]
        ELSE IF Head(rest) = 45 /\ Len(rest) > 1
                /\ \A k \in 2..Len(rest) : rest[k] \in 97..122
        THEN [ok |-> TRUE, major |-> major.n, minor |-> minor.n, patch |-> patch.n,
              pre |-> Tail(rest)]
        ELSE Err("semver::Error")

parse_patch(s, major, minor) ==
    IF ~minor.ok \/ minor.next > Len(s) \/ s[minor.next] # 46 THEN Err("semver::Error")
    ELSE parse_pre(s, major, minor, Numeric(s, minor.next + 1))

parse_minor(s, major) ==
    IF ~major.ok \/ major.next > Len(s) \/ s[major.next] # 46 THEN Err("semver::Error")
    ELSE parse_patch(s, major, Numeric(s, major.next + 1))

Version_parse(s) == parse_minor(s, Numeric(s, 1))

cmp_int(a, b) == IF a < b THEN "Less" ELSE IF a > b THEN "Greater" ELSE "Equal"

\* str::cmp: byte by byte, a proper prefix is less
RECURSIVE cmp_str(_, _)
cmp_str(a, b) ==
    IF a = <<>> /\ b = <<>> THEN "Equal"
    ELSE IF a = <<>> THEN "Less"
    ELSE IF b = <<>> THEN "Greater"
    ELSE IF Head(a) # Head(b) THEN cmp_int(Head(a), Head(b))
    ELSE cmp_str(Tail(a), Tail(b))

\* semver::Version::cmp: a version without pre-release is greater than the
\* same triple with one
cmp_version(va, vb) ==
    IF va.major # vb.major THEN cmp_int(va.major, vb.major)
    ELSE IF va.minor # vb.minor THEN cmp_int(va.minor, vb.minor)
    ELSE IF va.patch # vb.patch THEN cmp_int(va.patch, vb.patch)
    ELSE IF va.pre = <<>> /\ vb.pre = <<>> THEN "Equal"
    ELSE IF va.pre = <<>> THEN "Greater"
    ELSE IF vb.pre = <<>> THEN "Less"
    ELSE cmp_str(va.pre, vb.pre)

\* a comparison that never parses
max_by_lexicographic(a, b) == cmp_str(a.version, b.version)

\* the match of the closure given to max_by, on the two parse results
compare_parsed(a, b, va, vb) ==
    IF va.ok /\ vb.ok THEN cmp_version(va, vb)
    ELSE IF va.ok THEN "Greater"
    ELSE IF vb.ok THEN "Less"
    ELSE cmp_str(a.version, b.version)

\* the closure given to max_by in get_with_fallback
max_by_compare(a, b) ==
    compare_parsed(a, b, Version_parse(a.version), Version_parse(b.version))

\* Iterator::max_by over the entries in iteration order: the last of the
\* greatest elements
RECURSIVE max_by(_)
max_by(entries) ==
    IF entries = <<>> THEN None
    ELSE IF Len(entries) = 1 THEN Some(entries[1])
    ELSE LET best == max_by(SubSeq(entries, 1, Len(entries) - 1)).some
             last == entries[Len(entries)]
         IN  IF max_by_compare(best.key, last.key) = "Greater" THEN Some(best)
             ELSE Some(last)

\* MappingStore::get
get(cache, platform, app_id, version) ==
    IF \E e \in cache : e.key = MappingKey(platform, app_id, version)
    THEN Some((CHOOSE e \in cache : e.key = MappingKey(platform, app_id, version)).info)
    ELSE None

\* Iterator::filter, keeping the order
RECURSIVE filter_app(_, _, _)
filter_app(entries, platform, app_id) ==
    IF entries = <<>> THEN <<>>
    ELSE IF Head(entries).key.platform = platform /\ Head(entries).key.app_id = app_id
    THEN <<Head(entries)>> \o filter_app(Tail(entries), platform, app_id)
    ELSE filter_app(Tail(entries), platform, app_id)

\* the fallback of get_with_fallback
newest_info(newest) == IF newest = None THEN None ELSE Some(newest.some.info)

exact_or(exact, cache, platform, app_id, iter) ==
    IF exact # None THEN exact
    ELSE newest_info(max_by(filter_app(iter, platform, app_id)))

\* MappingStore::get_with_fallback; iter is the HashMap's iteration order
get_with_fallback(cache, platform, app_id, version, iter) ==
    exact_or(get(cache, platform, app_id, version), cache, platform, app_id, iter)

\* the orders in which a HashMap may hand out its entries
IterOrders(cache) ==
    {f \in [1..Cardinality(cache) -> cache] :
        \A i, j \in 1..Cardinality(cache) : i # j => f[i] # f[j]}

MaxSaves == 2

Android == [p |-> "Android"]
Go == [p |-> "Go"]
App == <<99, 111, 109, 46, 116, 101, 115, 116, 46, 97, 112, 112>>     \* com.test.app
OtherApp == <<99, 117, 115, 116, 111, 109>>                            \* custom
MappingTxt == <<109, 97, 112, 112, 105, 110, 103, 46, 116, 120, 116>>  \* mapping.txt

StoredVersions ==
    {<<49, 46, 48, 46, 48>>,                  \* 1.0.0
     <<49, 46, 49, 46, 48>>,                  \* 1.1.0
     <<50, 46, 48, 46, 48>>,                  \* 2.0.0
     <<49, 46, 49, 48, 46, 48>>,              \* 1.10.0
     <<49, 46, 57, 46, 48>>,                  \* 1.9.0
     <<50, 46, 48, 46, 48, 45, 114, 99>>,     \* 2.0.0-rc
     <<49, 46, 48>>,                          \* 1.0
     <<48, 49, 46, 48, 46, 48>>}              \* 01.0.0

LookupVersions ==
    {<<49, 46, 48, 46, 53>>,                  \* 1.0.5
     <<49, 46, 48, 46, 48>>}                  \* 1.0.0

BadComponents ==
    {<<>>,                                              \* empty
     <<46>>,                                            \* .
     <<46, 46>>,                                        \* ..
     <<46, 46, 47, 101, 116, 99>>,                      \* ../etc
     <<97, 46, 46, 98>>,                                \* a..b
     <<47, 101, 116, 99, 47, 112, 97, 115, 115, 119, 100>>,   \* /etc/passwd
     <<102, 111, 111, 92, 98, 97, 114>>}                \* foo\bar

SaveArgs ==
    {[platform |-> Android, app_id |-> App, version |-> v, filename |-> MappingTxt]
        : v \in StoredVersions}
    \cup {[platform |-> Go, app_id |-> App, version |-> <<50, 46, 48, 46, 48>>,
           filename |-> MappingTxt]}
    \cup {[platform |-> [unknown |-> b], app_id |-> App,
           version |-> <<49, 46, 48, 46, 48>>, filename |-> MappingTxt]
        : b \in BadComponents}
    \cup {[platform |-> Android, app_id |-> b, version |-> <<49, 46, 48, 46, 48>>,
           filename |-> MappingTxt] : b \in BadComponents}
    \cup {[platform |-> Android, app_id |-> App, version |-> b,
           filename |-> MappingTxt] : b \in BadComponents}
    \cup {[platform |-> Android, app_id |-> App, version |-> <<49, 46, 48, 46, 48>>,
           filename |-> b] : b \in BadComponents}

IoOutcomes == {"ok", "create_dir_all", "write"}

EmptyStore == [dirs |-> {}, files |-> {}, cache |-> {}]

NoCall == [op |-> "none"]

MappingStart ==
    /\ mstore = EmptyStore
    /\ mcall = NoCall
    /\ mret = Null
    /\ msaves = 0

MappingIdle ==
    /\ mstore = EmptyStore
    /\ mcall = [op |-> "idle"]
    /\ mret = Null
    /\ msaves = 0

SaveMapping ==
    /\ msaves < MaxSaves
    /\ \E a \in SaveArgs, io \in IoOutcomes :
          LET r == save_mapping(mstore, a.platform, a.app_id, a.version, a.filename,
                                "content", io)
          IN  /\ mstore' = r.store
              /\ mret' = r.ret
              /\ mcall' = [op |-> "save_mapping", platform |-> a.platform,
                           app_id |-> a.app_id, version |-> a.version,
                           filename |-> a.filename]
    /\ msaves' = msaves + 1

GetWithFallback ==
    /\ \E p \in {Android, Go}, a \in {App, OtherApp}, v \in LookupVersions,
          iter \in IterOrders(mstore.cache) :
          /\ mret' = get_with_fallback(mstore.cache, p, a, v, iter)
          /\ mcall' = [op |-> "get_with_fallback", platform |-> p, app_id |-> a,
                       version |-> v]
    /\ UNCHANGED <<mstore, msaves>>

MappingStep == SaveMapping \/ GetWithFallback

(***************************************************************************)
(* symbolication/android.rs: ProguardMapping.  A mapping file is the       *)
(* sequence of its lines; a line is given by the regular expression of     *)
(* parse that it matches and the groups captured.  Line numbers are u32;    *)
(* the sums below stay far from 2^32 for the files and frames used here.   *)
(***************************************************************************)
\* "original -> obfuscated:"
ClassLine(original, obfuscated) ==
    [k |-> "class", original |-> original, obfuscated |-> obfuscated]

\* "    s:e:type name(params):origStart:origEnd -> obfuscated"; the two
\* original line numbers are optional
MethodLine(obf_start, obf_end, name, orig_start, orig_end, obfuscated) ==
    [k |-> "method", obf_start |-> obf_start, obf_end |-> obf_end, name |-> name,
     orig_start |-> orig_start, orig_end |-> orig_end, obfuscated |-> obfuscated]

\* "    type name(params) -> obfuscated"
MethodNoLine(name, obfuscated) ==
    [k |-> "method_no_line", name |-> name, obfuscated |-> obfuscated]

\* "    type name -> obfuscated"
FieldLine(name, obfuscated) == [k |-> "field", name |-> name, obfuscated |-> obfuscated]

\* "# ..." or an empty line
CommentLine == [k |-> "comment"]

\* the LineRangeEntry that parse builds from a method line
LineRangeEntry(line) ==
    LET orig_start == IF line.orig_start = None THEN line.obf_start
                      ELSE line.orig_start.some
    IN  [obf_start |-> line.obf_start,
         obf_end |-> line.obf_end,
         orig_start |-> orig_start,
         orig_end |-> IF line.orig_end = None
                      THEN orig_start + (line.obf_end - line.obf_start)
                      ELSE line.orig_end.some,
         method_name |-> line.name]

\* HashMap::insert into classes: the later class of an obfuscated name wins
insert_class(classes, class) ==
    IF class = None THEN classes
    ELSE {c \in classes : c.obfuscated # class.some.obfuscated} \cup {class.some}

\* one line of the loop of parse, on the current class
parse_member(class, line) ==
    IF line.k = "method"
    THEN [class EXCEPT !.method_line_ranges =
              Append(@, [obfuscated |-> line.obfuscated, entry |-> LineRangeEntry(line)])]
    ELSE IF line.k = "method_no_line"
    THEN IF \/ \E i \in 1..Len(class.method_line_ranges) :
                  class.method_line_ranges[i].obfuscated = line.obfuscated
            \/ \E i \in 1..Len(class.methods_no_lines) :
                  class.methods_no_lines[i].obfuscated = line.obfuscated
         THEN class
         ELSE [class EXCEPT !.methods_no_lines =
                  Append(@, [obfuscated |-> line.obfuscated, name |-> line.name])]
    ELSE IF line.k = "field"
    THEN [class EXCEPT !.fields =
              SelectSeq(@, LAMBDA f : f.obfuscated # line.obfuscated)
              \o <<[obfuscated |-> line.obfuscated, name |-> line.name]>>]
    ELSE class

\* ProguardMapping::parse from a line on; method_line_ranges keeps the
\* entries of all methods in file order, each with its obfuscated name
RECURSIVE parse_from(_, _, _)
parse_from(file, classes, current) ==
    IF file = <<>> THEN [classes |-> insert_class(classes, current)]
    ELSE LET line == Head(file)
         IN  IF line.k = "comment" THEN parse_from(Tail(file), classes, current)
             ELSE IF line.k = "class"
             THEN parse_from(Tail(file), insert_class(classes, current),
                             Some([original |-> line.original,
                                   obfuscated |-> line.obfuscated,
                                   method_line_ranges |-> <<>>,
                                   methods_no_lines |-> <<>>,
                                   fields |-> <<>>]))
             ELSE IF current = None THEN parse_from(Tail(file), classes, current)
             ELSE parse_from(Tail(file), classes, Some(parse_member(current.some, line)))

ProguardMapping_parse(file) == parse_from(file, {}, None)

\* method_line_ranges.get(method): the entries of one obfuscated name
entries_of(class_mapping, method) ==
    SelectSeq(class_mapping.method_line_ranges, LAMBDA e : e.obfuscated = method)

\* a search that takes the last matching range
last_matching(entries, line_num) ==
    LET hits == {i \in 1..Len(entries) :
                    line_num >= entries[i].entry.obf_start
                    /\ line_num <= entries[i].entry.obf_end}
    IN  IF hits = {} THEN 0 ELSE CHOOSE i \in hits : \A j \in hits : j <= i

\* the for loop of deobfuscate_frame: the first entry whose range holds the line
first_matching(entries, line_num) ==
    LET hits == {i \in 1..Len(entries) :
                    line_num >= entries[i].entry.obf_start
                    /\ line_num <= entries[i].entry.obf_end}
    IN  IF hits = {} THEN 0 ELSE CHOOSE i \in hits : \A j \in hits : i <= j

\* ProguardMapping::deobfuscate_frame
deobfuscate_frame(mapping, class, method, line) ==
    IF ~\E c \in mapping.classes : c.obfuscated = class THEN None
    ELSE LET class_mapping == CHOOSE c \in mapping.classes : c.obfuscated = class
             entries == entries_of(class_mapping, method)
             hit == IF line = None THEN 0 ELSE first_matching(entries, line.some)
             no_lines == SelectSeq(class_mapping.methods_no_lines,
                                   LAMBDA e : e.obfuscated = method)
         IN  IF hit # 0
             THEN Some([class |-> class_mapping.original,
                        method |-> entries[hit].entry.method_name,
                        line |-> Some(entries[hit].entry.orig_start
                                      + (line.some - entries[hit].entry.obf_start))])
             ELSE Some([class |-> class_mapping.original,
                        method |-> IF no_lines # <<>> THEN no_lines[1].name
                                   ELSE IF entries # <<>> THEN entries[1].entry.method_name
                                   ELSE method,
                        line |-> line])

(***************************************************************************)
(* symbolication: the seven parsers.  A stack trace is the sequence of its *)
(* lines (str::lines); a line is given by its shape and by the groups the  *)
(* regular expressions capture from it.  The predicates below say which    *)
(* expression of which parser matches which shape.                         *)
(***************************************************************************)

\* "" or white space
Blank == [k |-> "blank"]
\* "    at a.a.a(SourceFile:3)", "    at a.a.a(Unknown Source)"
JavaFrame(class, method, line) ==
    [k |-> "java", class |-> class, method |-> method, line |-> line]
\* "    at myFunction (bundle.js:1:2345)"
ChromeFrame(function, file, line, column) ==
    [k |-> "chrome", function |-> function, file |-> file, line |-> line,
     column |-> column]
\* "myFunction@bundle.js:1:2345"
FirefoxFrame(function, file, line, column) ==
    [k |-> "firefox", function |-> function, file |-> file, line |-> line,
     column |-> column]
\* "goroutine 1 [running]:"
Goroutine == [k |-> "goroutine"]
\* "main.myFunction(0x123, 0x456)", "main.main()"
GoFunc(function, args) == [k |-> "go_func", function |-> function, args |-> args]
\* "<tab>/home/user/project/main.go:42 +0x1a"
GoLoc(file, line) == [k |-> "go_loc", file |-> file, line |-> line]
\* "   0: std::panicking::begin_panic"
RustFrame(function) == [k |-> "rust_frame", function |-> function]
\* "             at /path/to/file.rs:42:5"
RustLoc(file, line, column) ==
    [k |-> "rust_loc", file |-> file, line |-> line, column |-> column]
\* "#0      MyClass.myMethod (package:myapp/src/my_class.dart:42:15)"
DartFrame(function, file, line, column) ==
    [k |-> "dart", function |-> function, file |-> file, line |-> line,
     column |-> column]
\* "Traceback (most recent call last):" and any other text
OtherLine(text) == [k |-> "other", text |-> text]
\* "  File "/home/user/app/main.py", line 42, in my_function"
PyFile(file, line, function) ==
    [k |-> "py_file", file |-> file, line |-> line, function |-> function]
\* "    result = do_something()"
PyCode(text) == [k |-> "py_code", text |-> text]
\* "ValueError: test error"
PyException(type, message) == [k |-> "py_exception", type |-> type, message |-> message]
\* "0   MyApp    0x00000001 myFunction + 123"
IosFrame(symbol) == [k |-> "ios", symbol |-> symbol]

\* l.trim().is_empty()
is_blank(line) == line.k = "blank"

\* line.starts_with("    ")
starts_with_4_spaces(line) == line.k \in {"java", "chrome", "rust_loc", "py_code"}

\* stack_trace.lines().filter(|l| !l.trim().is_empty()).count()
non_blank_count(stack_trace) == Len(SelectSeq(stack_trace, LAMBDA l : ~is_blank(l)))

Frame(raw, function, file, line, column, symbolicated) ==
    [raw |-> raw, function |-> function, file |-> file, line |-> line,
     column |-> column, symbolicated |-> symbolicated]

\* SymbolicatedFrame::raw
raw_frame(line) == Frame(<<line>>, None, None, None, None, FALSE)

\* frames.iter().filter(|f| f.symbolicated).count()
count_symbolicated(found_frames) == Len(SelectSeq(found_frames, LAMBDA f : f.symbolicated))

Stack(stack_trace, found_frames, symbolicated_count, total_count) ==
    [ok |-> TRUE,
     stack |-> [raw |-> stack_trace, frames |-> found_frames,
                symbolicated_count |-> symbolicated_count,
                total_count |-> total_count]]

unknown == <<117, 110, 107, 110, 111, 119, 110>>     \* "unknown"

unwrap_or(option, default) == IF option = None THEN default ELSE option.some

\* the lookup every symbolicate starts with
lookup_mapping(store, context, iter) ==
    get_with_fallback(store.cache, context.platform,
                      unwrap_or(context.app_id, unknown),
                      unwrap_or(context.version, unknown), iter)

\* BufRead::lines of a file
lines_of(content) == IF "lines" \in DOMAIN content THEN content.lines ELSE <<>>

\* fs::File::open / fs::read_to_string of a path of the store
read_file(store, path) ==
    IF \E f \in store.files : f.path = path
    THEN [ok |-> TRUE, content |-> (CHOOSE f \in store.files : f.path = path).content]
    ELSE Err("IoError")

(* ---- android.rs ---- *)
android_frame(mapping, line) ==
    IF line.k # "java" THEN raw_frame(line)
    ELSE LET found == deobfuscate_frame(mapping, line.class, line.method, line.line)
         IN  IF found = None THEN raw_frame(line)
             ELSE Frame(<<line>>,
                        Some([class |-> found.some.class, method |-> found.some.method]),
                        Some([java |-> found.some.class]),
                        found.some.line, None, TRUE)

\* total_count of the Go, Rust and Python parsers: frames.len()
total_of_frames(stack_trace, found_frames) == Len(found_frames)

\* total_count of the other parsers: the lines of the input that are not blank
total_of_lines(stack_trace, found_frames) == non_blank_count(stack_trace)

\* .ok_or_else(|| SymbolicationError::MappingNotFound { .. })?
ok_or_else(stack_trace, platform, context) ==
    [ok |-> FALSE, err |-> "MappingNotFound", platform |-> platform,
     app_id |-> unwrap_or(context.app_id, <<>>),
     version |-> unwrap_or(context.version, <<>>)]

\* the loop of AndroidSymbolicator::symbolicate over the lines kept
android_frames(stack_trace, mapping, kept) ==
    Stack(stack_trace, [i \in 1..Len(kept) |-> android_frame(mapping, kept[i])],
          Len(SelectSeq(kept, LAMBDA l : android_frame(mapping, l).symbolicated)),
          total_of_lines(stack_trace, kept))

\* AndroidSymbolicator::symbolicate once the file was opened
android_with_file(stack_trace, file) ==
    IF ~file.ok THEN file
    ELSE android_frames(stack_trace, ProguardMapping_parse(lines_of(file.content)),
                        SelectSeq(stack_trace, LAMBDA l : ~is_blank(l)))

\* AndroidSymbolicator::symbolicate once the store was asked
android_with_mapping(store, stack_trace, context, mapping_info) ==
    IF mapping_info = None THEN ok_or_else(stack_trace, "android", context)
    ELSE android_with_file(stack_trace, read_file(store, mapping_info.some.path))

\* AndroidSymbolicator::symbolicate
android_symbolicate(store, stack_trace, context, iter) ==
    android_with_mapping(store, stack_trace, context,
                         lookup_mapping(store, context, iter))

(* ---- javascript.rs, react_native.rs ---- *)
\* SourceMap::from_reader
SourceMap_from_reader(content) ==
    IF "tokens" \in DOMAIN content THEN [ok |-> TRUE, sourcemap |-> content]
    ELSE Err("ParseError")

\* SourceMap::lookup_token: the last token at or before the position
lookup_token(sourcemap, line, column) ==
    LET before == {i \in 1..Len(sourcemap.tokens) :
                      \/ sourcemap.tokens[i].dst_line < line
                      \/ /\ sourcemap.tokens[i].dst_line = line
                         /\ sourcemap.tokens[i].dst_col <= column}
    IN  IF before = {} THEN None
        ELSE Some(sourcemap.tokens[CHOOSE i \in before : \A j \in before : j <= i])

zero_based(n) == IF n > 0 THEN n - 1 ELSE 0

\* chrome_re and js_frame_re also match a Rust location line with a column
matches_chrome_re(line) ==
    line.k = "chrome" \/ (line.k = "rust_loc" /\ line.column # None)

column_of(line) == IF line.k = "rust_loc" THEN line.column.some ELSE line.column

\* SymbolicatedFrame::symbolicated for a token of the source map
token_frame(line, function, token) ==
    Frame(<<line>>,
          IF token.name # None THEN token.name
          ELSE IF function # None THEN function
          ELSE Some("<anonymous>"),
          token.source, Some(token.src_line + 1), Some(token.src_col + 1), TRUE)

function_of(line) == IF line.k = "rust_loc" THEN None ELSE Some(line.function)

javascript_token_frame(line, token) ==
    IF token = None THEN raw_frame(line)
    ELSE token_frame(line, function_of(line), token.some)

javascript_frame(sourcemap, line) ==
    IF ~matches_chrome_re(line) /\ line.k # "firefox" THEN raw_frame(line)
    ELSE javascript_token_frame(line,
             lookup_token(sourcemap, zero_based(line.line), zero_based(column_of(line))))

javascript_frames(stack_trace, sourcemap, kept) ==
    Stack(stack_trace, [i \in 1..Len(kept) |-> javascript_frame(sourcemap, kept[i])],
          Len(SelectSeq(kept, LAMBDA l : javascript_frame(sourcemap, l).symbolicated)),
          total_of_lines(stack_trace, kept))

javascript_with_file(stack_trace, file) ==
    IF ~file.ok THEN file
    ELSE IF ~SourceMap_from_reader(file.content).ok THEN Err("ParseError")
    ELSE javascript_frames(stack_trace, file.content,
                           SelectSeq(stack_trace, LAMBDA l : ~is_blank(l)))

javascript_with_mapping(store, stack_trace, context, mapping_info) ==
    IF mapping_info = None THEN ok_or_else(stack_trace, "javascript", context)
    ELSE javascript_with_file(stack_trace, read_file(store, mapping_info.some.path))

\* JavaScriptSymbolicator::symbolicate
javascript_symbolicate(store, stack_trace, context, iter) ==
    javascript_with_mapping(store, stack_trace, context,
                            lookup_mapping(store, context, iter))

react_native_js_frame(line, token) ==
    IF token # None THEN token_frame(line, function_of(line), token.some)
    ELSE Frame(<<line>>, function_of(line), Some(line.file), Some(line.line),
               Some(column_of(line)), FALSE)

react_native_frame(sourcemap, line) ==
    IF matches_chrome_re(line)
    THEN react_native_js_frame(line,
             IF sourcemap = None THEN None
             ELSE lookup_token(sourcemap.some, zero_based(line.line),
                               zero_based(column_of(line))))
    ELSE IF line.k = "java" /\ line.line # None
    THEN Frame(<<line>>, Some([class |-> line.class, method |-> line.method]),
               Some("SourceFile"), line.line, None, TRUE)
    ELSE IF line.k = "ios"
    THEN Frame(<<line>>, Some(line.symbol), None, None, None, TRUE)
    ELSE raw_frame(line)

\* ReactNativeSymbolicator::parse_react_native_stack
parse_react_native_stack(stack_trace, sourcemap, kept) ==
    Stack(stack_trace, [i \in 1..Len(kept) |-> react_native_frame(sourcemap, kept[i])],
          Len(SelectSeq(kept, LAMBDA l : react_native_frame(sourcemap, l).symbolicated)),
          total_of_lines(stack_trace, kept))

react_native_with_file(stack_trace, file) ==
    IF ~file.ok THEN file
    ELSE parse_react_native_stack(stack_trace,
             IF SourceMap_from_reader(file.content).ok THEN Some(file.content) ELSE None,
             SelectSeq(stack_trace, LAMBDA l : ~is_blank(l)))

react_native_with_mapping(store, stack_trace, context, mapping_info) ==
    IF mapping_info = None
    THEN parse_react_native_stack(stack_trace, None,
                                  SelectSeq(stack_trace, LAMBDA l : ~is_blank(l)))
    ELSE react_native_with_file(stack_trace, read_file(store, mapping_info.some.path))

\* ReactNativeSymbolicator::symbolicate
react_native_symbolicate(store, stack_trace, context, iter) ==
    react_native_with_mapping(store, stack_trace, context,
                              lookup_mapping(store, context, iter))

(* ---- flutter.rs ---- *)
dart_frame(line) ==
    IF line.k = "dart"
    THEN Frame(<<line>>, Some(line.function), Some(line.file), Some(line.line),
               line.column, TRUE)
    ELSE raw_frame(line)

\* the frame symbolicate_with_flutter_command makes of a line of output
tool_frame(line) ==
    IF line.k = "dart"
    THEN Frame(<<line>>, Some(line.function), Some(line.file), Some(line.line), None, TRUE)
    ELSE raw_frame(line)

\* symbolicate_with_flutter_command, given what the tool printed
symbolicate_with_flutter_command(stack_trace, output) ==
    Stack(stack_trace, [i \in 1..Len(output) |-> tool_frame(output[i])],
          Len(SelectSeq(output, LAMBDA l : tool_frame(l).symbolicated)),
          total_of_lines(stack_trace, output))

basic_frames(stack_trace, kept) ==
    Stack(stack_trace, [i \in 1..Len(kept) |-> dart_frame(kept[i])],
          Len(SelectSeq(kept, LAMBDA l : dart_frame(l).symbolicated)),
          total_of_lines(stack_trace, kept))

\* symbolicate_basic
symbolicate_basic(stack_trace) ==
    basic_frames(stack_trace, SelectSeq(stack_trace, LAMBDA l : ~is_blank(l)))

flutter_with_mapping(stack_trace, mapping_info, tool) ==
    IF mapping_info # None /\ tool # None
    THEN symbolicate_with_flutter_command(stack_trace, tool.some)
    ELSE symbolicate_basic(stack_trace)

\* FlutterSymbolicator::symbolicate; tool is None when `flutter symbolize`
\* cannot be run or fails, else what it printed
flutter_symbolicate(store, stack_trace, context, iter, tool) ==
    flutter_with_mapping(stack_trace, lookup_mapping(store, context, iter), tool)

(* ---- go.rs, rust_sym.rs ---- *)
\* the frame pushed for a function line without location
pending_frame(st) ==
    IF st.current_function = None THEN <<>>
    ELSE <<Frame(st.current_raw, st.current_function, None, None, None, TRUE)>>

\* the frame left over when the input ends
finish(st) == st.frames \o pending_frame(st)

\* the counts of the Go, Rust and Python parsers
counted(stack_trace, found_frames) ==
    Stack(stack_trace, found_frames, count_symbolicated(found_frames),
          total_of_frames(stack_trace, found_frames))

\* the loop of parse_go_stack; st is [frames, current_function, current_args,
\* current_raw]
RECURSIVE go_loop(_, _)
go_loop(stack_trace, st) ==
    IF stack_trace = <<>> THEN st
    ELSE LET line == Head(stack_trace)
             rest == Tail(stack_trace)
         IN  IF line.k = "goroutine"
             THEN go_loop(rest, [st EXCEPT !.frames = Append(@, raw_frame(line))])
             ELSE IF line.k = "go_func"
             THEN go_loop(rest, [frames |-> st.frames \o pending_frame(st),
                                 current_function |-> Some([name |-> line.function,
                                                            ellipsis |-> FALSE]),
                                 current_args |-> Some(line.args),
                                 current_raw |-> <<line>>])
             ELSE IF line.k = "go_loc"
             THEN IF st.current_function = None THEN go_loop(rest, st)
                  ELSE go_loop(rest,
                         [frames |-> Append(st.frames,
                              Frame(st.current_raw \o <<line>>,
                                    Some([name |-> st.current_function.some.name,
                                          ellipsis |-> st.current_args # None
                                                       /\ st.current_args.some # ""]),
                                    Some(line.file), Some(line.line), None, TRUE)),
                          current_function |-> None,
                          current_args |-> None,
                          current_raw |-> <<>>])
             ELSE IF ~is_blank(line)
             THEN go_loop(rest, [st EXCEPT !.frames = Append(@, raw_frame(line))])
             ELSE go_loop(rest, st)

\* GoSymbolicator::parse_go_stack
parse_go_stack(stack_trace) ==
    counted(stack_trace,
            finish(go_loop(stack_trace, [frames |-> <<>>, current_function |-> None,
                                         current_args |-> None, current_raw |-> <<>>])))

\* GoSymbolicator::symbolicate
go_symbolicate(store, stack_trace, context, iter) == parse_go_stack(stack_trace)

\* the loop of parse_rust_backtrace; st is [frames, current_function,
\* current_raw]
RECURSIVE rust_loop(_, _)
rust_loop(stack_trace, st) ==
    IF stack_trace = <<>> THEN st
    ELSE LET line == Head(stack_trace)
             rest == Tail(stack_trace)
         IN  IF line.k = "rust_frame"
             THEN rust_loop(rest, [frames |-> st.frames \o pending_frame(st),
                                   current_function |-> Some([name |-> line.function]),
                                   current_raw |-> <<line>>])
             ELSE IF line.k = "rust_loc"
             THEN IF st.current_function = None THEN rust_loop(rest, st)
                  ELSE rust_loop(rest,
                         [frames |-> Append(st.frames,
                              Frame(st.current_raw \o <<line>>, st.current_function,
                                    Some(line.file), Some(line.line), line.column, TRUE)),
                          current_function |-> None,
                          current_raw |-> <<>>])
             ELSE IF ~is_blank(line)
             THEN rust_loop(rest, [st EXCEPT !.frames = Append(@, raw_frame(line))])
             ELSE rust_loop(rest, st)

\* RustSymbolicator::parse_rust_backtrace
parse_rust_backtrace(stack_trace) ==
    counted(stack_trace,
            finish(rust_loop(stack_trace, [frames |-> <<>>, current_function |-> None,
                                           current_raw |-> <<>>])))

\* RustSymbolicator::symbolicate
rust_symbolicate(store, stack_trace, context, iter) == parse_rust_backtrace(stack_trace)

(* ---- python.rs ---- *)
\* the frame pushed for the File line at hand
python_pending(st) ==
    IF ~st.in_frame THEN <<>>
    ELSE <<Frame(st.current_raw, st.current_function, st.current_file,
                 st.current_line, None, TRUE)>>

python_finish(st) == st.frames \o python_pending(st)

\* the loop of parse_python_traceback; st is [frames, in_frame, current_file,
\* current_line, current_function, current_raw]
RECURSIVE python_loop(_, _)
python_loop(stack_trace, st) ==
    IF stack_trace = <<>> THEN st
    ELSE LET line == Head(stack_trace)
             rest == Tail(stack_trace)
             taken == [st EXCEPT !.frames = @ \o python_pending(st),
                                 !.current_function = IF st.in_frame THEN None ELSE @,
                                 !.current_file = IF st.in_frame THEN None ELSE @,
                                 !.current_line = IF st.in_frame THEN None ELSE @]
         IN  IF line.k = "py_file"
             THEN python_loop(rest, [taken EXCEPT !.current_file = Some(line.file),
                                                  !.current_line = Some(line.line),
                                                  !.current_function = Some(line.function),
                                                  !.current_raw = <<line>>,
                                                  !.in_frame = TRUE])
             ELSE IF st.in_frame /\ starts_with_4_spaces(line)
             THEN python_loop(rest, [st EXCEPT !.current_raw = Append(@, line)])
             ELSE IF line.k = "py_exception"
             THEN python_loop(rest,
                    [taken EXCEPT !.in_frame = FALSE,
                                  !.frames = Append(@,
                                      Frame(<<line>>,
                                            Some([type |-> line.type,
                                                  message |-> line.message]),
                                            None, None, None, TRUE))])
             ELSE IF ~is_blank(line)
             THEN python_loop(rest,
                    [taken EXCEPT !.in_frame = FALSE,
                                  !.current_raw = IF st.in_frame THEN <<>> ELSE @,
                                  !.frames = Append(@, raw_frame(line))])
             ELSE python_loop(rest, st)

\* PythonSymbolicator::parse_python_traceback
parse_python_traceback(stack_trace) ==
    counted(stack_trace,
            python_finish(python_loop(stack_trace,
                [frames |-> <<>>, in_frame |-> FALSE, current_file |-> None,
                 current_line |-> None, current_function |-> None,
                 current_raw |-> <<>>])))

\* PythonSymbolicator::symbolicate
python_symbolicate(store, stack_trace, context, iter) ==
    parse_python_traceback(stack_trace)

(* ---- mod.rs ---- *)
\* Symbolicator::symbolicate
symbolicate(store, stack_trace, context, iter, tool) ==
    IF "unknown" \in DOMAIN context.platform
    THEN [ok |-> FALSE, err |-> "UnsupportedPlatform", platform |-> context.platform.unknown]
    ELSE CASE context.platform.p = "Android" ->
                android_symbolicate(store, stack_trace, context, iter)
           [] context.platform.p = "Electron" ->
                javascript_symbolicate(store, stack_trace, context, iter)
           [] context.platform.p = "Flutter" ->
                flutter_symbolicate(store, stack_trace, context, iter, tool)
           [] context.platform.p = "Rust" ->
                rust_symbolicate(store, stack_trace, context, iter)
           [] context.platform.p = "Go" ->
                go_symbolicate(store, stack_trace, context, iter)
           [] context.platform.p = "Python" ->
                python_symbolicate(store, stack_trace, context, iter)
           [] context.platform.p = "ReactNative" ->
                react_native_symbolicate(store, stack_trace, context, iter)

(***************************************************************************)
(* Scenarios: frames resolved against a parsed ProGuard mapping, and       *)
(* Symbolicator::symbolicate applied to short traces of every kind of line *)
(* with and without a mapping file in the store.                           *)
(***************************************************************************)

\* mapping files: the ones of the tests of android.rs, one with overlapping
\* ranges, one with a method listed both with and without line numbers
MappingFiles ==
    {<<CommentLine,
       ClassLine("com.example.Overloads", "a.a"),
       MethodLine(1, 5, "process", Some(10), Some(14), "a"),
       MethodLine(6, 10, "process", Some(20), Some(24), "a"),
       MethodLine(11, 15, "helper", Some(30), Some(34), "a")>>,
     <<ClassLine("com.example.Inlined", "a.a"),
       MethodLine(1, 5, "inlinedMethod", Some(100), Some(104), "a"),
       MethodLine(3, 8, "anotherMethod", Some(200), None, "a"),
       MethodNoLine("plain", "b")>>,
     <<ClassLine("com.example.MyClass", "a.a"),
       MethodNoLine("knownMethod", "a"),
       MethodLine(1, 10, "myMethod", None, None, "a"),
       FieldLine("myField", "b"),
       ClassLine("com.example.OtherClass", "a.b"),
       MethodLine(1, 10, "doSomething", None, None, "c")>>,
     <<ClassLine("com.example.MyClass", "a.a"),
       MethodLine(1, 10, "myMethod", Some(100), Some(109), "a")>>}

FrameClasses == {"a.a", "a.b", "z.z"}
FrameMethods == {"a", "b", "c"}
FrameLines == {None} \cup {Some(n) : n \in {1, 3, 5, 8, 13, 50}}

ProguardStart ==
    /\ pfile \in MappingFiles
    /\ pmapping = Null
    /\ pcall = [op |-> "none"]
    /\ pret = Null

ProguardIdle ==
    /\ pfile = <<>>
    /\ pmapping = Null
    /\ pcall = [op |-> "idle"]
    /\ pret = Null

ParseMapping ==
    /\ pcall.op = "none"
    /\ pmapping' = ProguardMapping_parse(pfile)
    /\ pcall' = [op |-> "parse"]
    /\ UNCHANGED <<pfile, pret>>

DeobfuscateFrame ==
    /\ pcall.op \in {"parse", "deobfuscate_frame"}
    /\ \E class \in FrameClasses, method \in FrameMethods, line \in FrameLines :
          /\ pret' = deobfuscate_frame(pmapping, class, method, line)
          /\ pcall' = [op |-> "deobfuscate_frame", class |-> class, method |-> method,
                       line |-> line]
    /\ UNCHANGED <<pfile, pmapping>>

ProguardStep == ParseMapping \/ DeobfuscateFrame

MaxLines == 2

TraceLines ==
    {Blank,
     JavaFrame("a.a", "a", Some(3)),
     ChromeFrame("myFunction", "bundle.js", 1, 2345),
     FirefoxFrame("myFunction", "bundle.js", 1, 2345),
     Goroutine,
     GoFunc("main.myFunction", "0x123, 0x456"),
     GoLoc("/home/user/project/main.go", 42),
     RustFrame("std::panicking::begin_panic"),
     RustLoc("/path/to/file.rs", 42, Some(5)),
     DartFrame("MyClass.myMethod", "package:myapp/src/my_class.dart", 42, Some(15)),
     OtherLine("Traceback (most recent call last):"),
     PyFile("/home/user/app/main.py", 42, "my_function"),
     PyCode("result = do_something()"),
     PyException("ValueError", "test error"),
     IosFrame("myFunction")}

\* the traces of the tests of go.rs and python.rs
GoTestTrace ==
    <<Goroutine,
      GoFunc("main.myFunction", "0x123, 0x456"),
      GoLoc("/home/user/project/main.go", 42),
      GoFunc("main.main", ""),
      GoLoc("/home/user/project/main.go", 10)>>

PythonTestTrace ==
    <<OtherLine("Traceback (most recent call last):"),
      PyFile("/home/user/app/main.py", 42, "my_function"),
      PyCode("result = do_something()"),
      PyFile("/home/user/app/utils.py", 10, "do_something"),
      PyCode("raise ValueError"),
      PyException("ValueError", "test error")>>

Traces ==
    UNION {[1..n -> TraceLines] : n \in 0..MaxLines}
    \cup {GoTestTrace, PythonTestTrace}

Platforms ==
    {[p |-> name] : name \in {"Android", "Electron", "Flutter", "Rust", "Go", "Python",
                              "ReactNative"}}

\* a source map with one named token at the start of line 1
SourceMapFile ==
    [tokens |-> <<[dst_line |-> 0, dst_col |-> 0, name |-> Some("original"),
                   source |-> Some("src/app.ts"), src_line |-> 9, src_col |-> 4]>>]

FileContents(platform) ==
    IF platform.p = "Android" THEN {[lines |-> f] : f \in MappingFiles}
    ELSE IF platform.p \in {"Electron", "ReactNative"}
    THEN {SourceMapFile, [garbage |-> TRUE]}
    ELSE {[symbols |-> TRUE]}

Version100 == <<49, 46, 48, 46, 48>>     \* 1.0.0
Version105 == <<49, 46, 48, 46, 53>>     \* 1.0.5

\* the stores: empty, or one mapping file saved for version 1.0.0 of the app
SymStores ==
    {EmptyStore}
    \cup UNION {{save_mapping(EmptyStore, p, App, Version100, MappingTxt, content,
                               "ok").store : content \in FileContents(p)}
                    : p \in Platforms}

SymContexts ==
    {[platform |-> p, app_id |-> a, version |-> Some(Version105), build_id |-> None]
        : p \in Platforms \cup {[unknown |-> OtherApp]}, a \in {Some(App), None}}

\* what `flutter symbolize` may do with a trace: fail, or print it back
ToolOutputs(stack_trace) == {None, Some(stack_trace)}

SymStart ==
    /\ ystore \in SymStores
    /\ ytrace \in Traces
    /\ ycontext \in SymContexts
    /\ yname = None
    /\ ycall = [op |-> "none"]
    /\ yret = Null

SymIdle ==
    /\ ystore = EmptyStore
    /\ ytrace = <<>>
    /\ ycontext = Null
    /\ yname = None
    /\ ycall = [op |-> "idle"]
    /\ yret = Null

Symbolicate ==
    /\ ycall.op = "none"
    /\ \E iter \in IterOrders(ystore.cache), tool \in ToolOutputs(ytrace) :
          yret' = symbolicate(ystore, ytrace, ycontext, iter, tool)
    /\ ycall' = [op |-> "symbolicate"]
    /\ UNCHANGED <<ystore, ytrace, ycontext, yname>>

SymStep == Symbolicate

(***************************************************************************)
(* event.rs: UnsignedNostrEvent.  A string is a sequence of ASCII codes;    *)
(* serde_json::to_string of a value is [json |-> value], an array being    *)
(* [arr |-> tuple] and an object [obj |-> record].                         *)
(***************************************************************************)

\* the string as given
keep_case(s) == s

\* str::to_lowercase
to_lowercase(s) ==
    [i \in 1..Len(s) |-> IF s[i] \in 65..90 THEN s[i] + 32 ELSE s[i]]

\* UnsignedNostrEvent::new
new(pubkey, created_at, kind, tags, content) ==
    [id |-> None,
     pubkey |-> to_lowercase(pubkey),
     created_at |-> created_at,
     kind |-> kind,
     tags |-> tags,
     content |-> content,
     sig |-> <<>>]

\* UnsignedNostrEvent::compute_id: the hex of the SHA-256 of
\* [0, pubkey, created_at, kind, tags, content]
compute_id(self) ==
    LET serialized == [arr |-> <<0, to_lowercase(self.pubkey), self.created_at,
                                 self.kind, self.tags, self.content>>]
        json       == [json |-> serialized]
    IN  hex_encode(Sha256(json), KEY_LEN)

\* UnsignedNostrEvent::with_id
with_id(self) == [self EXCEPT !.id = Some(compute_id(self))]

\* UnsignedNostrEvent::to_json
to_json(self) ==
    LET event == [id |-> Some(compute_id(self)),
                  pubkey |-> to_lowercase(self.pubkey),
                  created_at |-> self.created_at,
                  kind |-> self.kind,
                  tags |-> self.tags,
                  content |-> self.content,
                  sig |-> self.sig]
    IN  [json |-> [obj |-> [id |-> event.id.some, pubkey |-> event.pubkey,
                            created_at |-> event.created_at, kind |-> event.kind,
                            tags |-> event.tags, content |-> event.content,
                            sig |-> event.sig]]]

(***************************************************************************)
(* Event scenario: up to MaxEvents events are built with new; compute_id,  *)
(* with_id and to_json are called on them in any order.                    *)
(***************************************************************************)
MaxEvents == 2

\* aa, AA, Ab, bb
Pubkeys == {<<97, 97>>, <<65, 65>>, <<65, 98>>, <<98, 98>>}

EventArgs ==
    [pubkey : Pubkeys,
     created_at : {1234567890},
     kind : {14},
     tags : {<<<<"p", <<98, 98>>>>>>},
     content : {"hello", "world"}]

EventStart ==
    /\ evs = <<>>
    /\ eouts = <<>>

EventIdle ==
    /\ evs = <<>>
    /\ eouts = <<>>

EventNew ==
    /\ Len(evs) < MaxEvents
    /\ \E a \in EventArgs :
          evs' = Append(evs, [args |-> a,
                              event |-> new(a.pubkey, a.created_at, a.kind,
                                            a.tags, a.content)])
    /\ eouts' = Append(eouts, [ids |-> {}, json |-> None])

ComputeId ==
    \E i \in 1..Len(evs) :
        /\ eouts' = [eouts EXCEPT ![i].ids = @ \cup {compute_id(evs[i].event)}]
        /\ UNCHANGED evs

WithId ==
    \E i \in 1..Len(evs) :
        /\ evs' = [evs EXCEPT ![i].event = with_id(@)]
        /\ UNCHANGED eouts

ToJson ==
    \E i \in 1..Len(evs) :
        /\ eouts' = [eouts EXCEPT ![i].json = Some(to_json(evs[i].event))]
        /\ UNCHANGED evs

EventStep == EventNew \/ ComputeId \/ WithId \/ ToJson

(***************************************************************************)
(* symbolication/mod.rs: Platform::from_str.                               *)
(***************************************************************************)

\* every string is its own platform: no aliases, no case folding
from_str_exact(s) ==
    LET named == {p \in Platforms : as_str(p) = s}
    IN  IF named = {} THEN [unknown |-> s] ELSE CHOOSE p \in named : TRUE

\* Platform::from_str
from_str(s) ==
    LET lower == to_lowercase(s)
    IN  CASE lower = <<97, 110, 100, 114, 111, 105, 100>> ->    \* android
                [p |-> "Android"]
          [] lower \in {<<101, 108, 101, 99, 116, 114, 111, 110>>, <<106, 97, 118, 97, 115, 99, 114, 105, 112, 116>>, <<106, 115>>} ->    \* electron | javascript | js
                [p |-> "Electron"]
          [] lower \in {<<102, 108, 117, 116, 116, 101, 114>>, <<100, 97, 114, 116>>} ->    \* flutter | dart
                [p |-> "Flutter"]
          [] lower = <<114, 117, 115, 116>> ->    \* rust
                [p |-> "Rust"]
          [] lower \in {<<103, 111>>, <<103, 111, 108, 97, 110, 103>>} ->    \* go | golang
                [p |-> "Go"]
          [] lower = <<112, 121, 116, 104, 111, 110>> ->    \* python
                [p |-> "Python"]
          [] lower \in {<<114, 101, 97, 99, 116, 45, 110, 97, 116, 105, 118, 101>>, <<114, 101, 97, 99, 116, 110, 97, 116, 105, 118, 101>>, <<114, 110>>} ->    \* react-native | reactnative | rn
                [p |-> "ReactNative"]
          [] OTHER -> [unknown |-> lower]

(***************************************************************************)
(* Platform scenario: the caller parses a platform name, builds the        *)
(* context from it and calls symbolicate.                                  *)
(***************************************************************************)
PlatformNames ==
    {<<97, 110, 100, 114, 111, 105, 100>>,                        \* android,
     <<65, 110, 100, 114, 111, 105, 100>>,                        \* Android,
     <<65, 78, 68, 82, 79, 73, 68>>,                              \* ANDROID,
     <<101, 108, 101, 99, 116, 114, 111, 110>>,                   \* electron,
     <<106, 97, 118, 97, 115, 99, 114, 105, 112, 116>>,           \* javascript,
     <<106, 115>>,                                                \* js,
     <<74, 83>>,                                                  \* JS,
     <<102, 108, 117, 116, 116, 101, 114>>,                       \* flutter,
     <<100, 97, 114, 116>>,                                       \* dart,
     <<68, 97, 114, 116>>,                                        \* Dart,
     <<114, 117, 115, 116>>,                                      \* rust,
     <<82, 85, 83, 84>>,                                          \* RUST,
     <<103, 111>>,                                                \* go,
     <<103, 111, 108, 97, 110, 103>>,                             \* golang,
     <<71, 111, 76, 97, 110, 103>>,                               \* GoLang,
     <<112, 121, 116, 104, 111, 110>>,                            \* python,
     <<80, 121, 116, 104, 111, 110>>,                             \* Python,
     <<114, 101, 97, 99, 116, 45, 110, 97, 116, 105, 118, 101>>,  \* react-native,
     <<82, 101, 97, 99, 116, 45, 78, 97, 116, 105, 118, 101>>,    \* React-Native,
     <<114, 101, 97, 99, 116, 110, 97, 116, 105, 118, 101>>,      \* reactnative,
     <<114, 110>>,                                                \* rn,
     <<114, 78>>,                                                 \* rN,
     <<>>,                                                        \* (empty),
     <<105, 111, 115>>,                                           \* ios,
     <<73, 79, 83>>,                                              \* IOS,
     <<99, 117, 115, 116, 111, 109>>,                             \* custom,
     <<97, 110, 100, 114, 111, 105, 100, 115>>,                   \* androids,
     <<114, 101, 97, 99, 116, 95, 110, 97, 116, 105, 118, 101>>,  \* react_native,
     <<106, 32, 115>>,                                            \* j s,
     <<110, 111, 100, 101>>}                                      \* node

PlatformStart ==
    /\ ystore \in SymStores
    /\ ytrace \in {<<>>, GoTestTrace, PythonTestTrace}
    /\ ycontext = Null
    /\ yname \in {Some(s) : s \in PlatformNames}
    /\ ycall = [op |-> "none"]
    /\ yret = Null

\* Platform::from_str(name) and the SymbolicationContext built from it
FromStr ==
    /\ ycontext = Null
    /\ yname # None
    /\ \E a \in {Some(App), None} :
          ycontext' = [platform |-> from_str(yname.some), app_id |-> a,
                       version |-> Some(Version105), build_id |-> None]
    /\ ycall' = [op |-> "from_str"]
    /\ UNCHANGED <<ystore, ytrace, yname, yret>>

\* symbolicate with the context built
SymbolicateParsed ==
    /\ ycall.op = "from_str"
    /\ \E iter \in IterOrders(ystore.cache), tool \in ToolOutputs(ytrace) :
          yret' = symbolicate(ystore, ytrace, ycontext, iter, tool)
    /\ ycall' = [op |-> "symbolicate"]
    /\ UNCHANGED <<ystore, ytrace, ycontext, yname>>

PlatformStep == FromStr \/ SymbolicateParsed

(***************************************************************************)
(* symbolication/store.rs: MappingStore::scan on the store [dirs, files,   *)
(* cache].  A path exists when it is a directory or a file of the store.   *)
(***************************************************************************)
FilePaths(store) == {f.path : f \in store.files}

path_exists(store, path) == path \in store.dirs \cup FilePaths(store)

\* fs::read_dir(dir): the entries directly below dir
read_dir(store, dir) ==
    {p \in store.dirs \cup FilePaths(store) :
        Len(p) = Len(dir) + 1 /\ SubSeq(p, 1, Len(dir)) = dir}

\* Path::extension of a file name: what follows the last '.', unless the only
\* '.' is the first character
extension(name) ==
    LET dots == {i \in 2..Len(name) : name[i] = 46}
    IN  IF dots = {} THEN None
        ELSE Some(SubSeq(name, (CHOOSE i \in dots : \A j \in dots : j <= i) + 1,
                         Len(name)))

\* the candidate file names of find_mapping_file, in order
candidates(platform) ==
    IF "unknown" \in DOMAIN platform THEN <<>>
    ELSE CASE platform.p = "Android" ->
                <<<<109, 97, 112, 112, 105, 110, 103, 46, 116, 120, 116>>,
                  <<112, 114, 111, 103, 117, 97, 114, 100, 45, 109, 97, 112, 112, 105, 110, 103, 46, 116, 120, 116>>,
                  <<114, 56, 45, 109, 97, 112, 112, 105, 110, 103, 46, 116, 120, 116>>>>
           [] platform.p = "Electron" ->
                <<<<109, 97, 105, 110, 46, 106, 115, 46, 109, 97, 112>>,
                  <<105, 110, 100, 101, 120, 46, 106, 115, 46, 109, 97, 112>>,
                  <<98, 117, 110, 100, 108, 101, 46, 106, 115, 46, 109, 97, 112>>>>
           [] platform.p = "Flutter" ->
                <<<<97, 112, 112, 46, 97, 110, 100, 114, 111, 105, 100, 45, 97, 114, 109, 54, 52, 46, 115, 121, 109, 98, 111, 108, 115>>,
                  <<97, 112, 112, 46, 105, 111, 115, 45, 97, 114, 109, 54, 52, 46, 115, 121, 109, 98, 111, 108, 115>>,
                  <<97, 112, 112, 46, 115, 121, 109, 98, 111, 108, 115>>>>
           [] platform.p = "Rust" ->
                <<<<115, 121, 109, 98, 111, 108, 115, 46, 116, 120, 116>>,
                  <<100, 101, 98, 117, 103, 46, 100, 119, 97, 114, 102>>>>
           [] platform.p = "Go" ->
                <<<<115, 121, 109, 98, 111, 108, 115, 46, 116, 120, 116>>,
                  <<103, 111, 46, 115, 121, 109>>>>
           [] platform.p = "Python" ->
                <<<<115, 111, 117, 114, 99, 101, 45, 109, 97, 112, 46, 106, 115, 111, 110>>,
                  <<109, 97, 112, 112, 105, 110, 103, 46, 106, 115, 111, 110>>>>
           [] platform.p = "ReactNative" ->
                <<<<105, 110, 100, 101, 120, 46, 97, 110, 100, 114, 111, 105, 100, 46, 98, 117, 110, 100, 108, 101, 46, 109, 97, 112>>,
                  <<105, 110, 100, 101, 120, 46, 105, 111, 115, 46, 98, 117, 110, 100, 108, 101, 46, 109, 97, 112>>,
                  <<109, 97, 105, 110, 46, 106, 115, 98, 117, 110, 100, 108, 101, 46, 109, 97, 112>>>>

\* the first candidate that exists in dir, from position i on
RECURSIVE first_candidate(_, _, _, _)
first_candidate(store, names, dir, i) ==
    IF i > Len(names) THEN None
    ELSE IF path_exists(store, Append(dir, names[i])) THEN Some(Append(dir, names[i]))
    ELSE first_candidate(store, names, dir, i + 1)

\* MappingStore::find_mapping_file: the paths it may return (read_dir hands
\* out the entries in any order), or {} for None
find_mapping_file(store, platform, dir) ==
    LET first == first_candidate(store, candidates(platform), dir, 1)
    IN  IF first # None THEN {first.some}
        ELSE {p \in read_dir(store, dir) :
                /\ extension(p[Len(p)]) # None
                /\ to_lowercase(extension(p[Len(p)]).some)
                      \in {<<109, 97, 112>>, <<116, 120, 116>>, <<115, 121, 109, 98, 111, 108, 115>>}}

\* the version directories scan visits: <root>/<platform>/<app>/<version>
version_dirs(store) ==
    {d \in store.dirs : Len(d) = 3 /\ Parents(d) \subseteq store.dirs}

\* the cache counted entry by entry
scan_len(visited, cache) == Cardinality(cache)

\* the count scan returns: one for every insert
scan_count(visited, cache) == Cardinality(visited)

\* MappingStore::scan without I/O errors: the stores and counts it may end
\* with.  Every version directory with a mapping file is inserted under
\* (from_str(platform name), app, version); of the directories that share a
\* key the one read_dir hands out last stays.  A root that does not exist is
\* created and scanned as empty.
scan(store) ==
    LET visited == {d \in version_dirs(store) :
                       find_mapping_file(store, from_str(d[1]), d) # {}}
        KeyOf(d) == MappingKey(from_str(d[1]), d[2], d[3])
        keys    == {KeyOf(d) : d \in visited}
    IN  {[store |-> [store EXCEPT !.cache =
                        {[key |-> k,
                          info |-> [path |-> path_of[last[k]], platform |-> k.platform,
                                    app_id |-> k.app_id, version |-> k.version]]
                            : k \in keys}],
          ret |-> [ok |-> TRUE, count |-> scan_count(visited, keys)]]
            : last \in {f \in [keys -> visited] : \A k \in keys : KeyOf(f[k]) = k},
              path_of \in {g \in [visited -> UNION {find_mapping_file(store, from_str(d[1]), d)
                                                       : d \in visited}] :
                              \A d \in visited :
                                  g[d] \in find_mapping_file(store, from_str(d[1]), d)}}

(***************************************************************************)
(* Scan scenario: a mappings directory as found on disk, then scan,        *)
(* save_mapping, add_mapping and get in any order.                         *)
(***************************************************************************)
Dir(platform, app, version) == <<platform, app, version>>

\* a disk with these files, and the directories above them
Disk(paths) ==
    [dirs |-> UNION {Parents(p) : p \in paths},
     files |-> {[path |-> p, content |-> "content"] : p \in paths},
     cache |-> {}]

V100 == <<49, 46, 48, 46, 48>>

\* an empty root; the layout of test_mapping_store_scan; the same app under
\* android/ and Android/; under js/ and electron/; a directory with no
\* candidate name but two files with a mapping extension; a custom platform
ScanDisks ==
    {Disk({}),
     Disk({<<<<97, 110, 100, 114, 111, 105, 100>>, App, V100, MappingTxt>>}),
     Disk({<<<<97, 110, 100, 114, 111, 105, 100>>, App, V100, MappingTxt>>,
           <<<<65, 110, 100, 114, 111, 105, 100>>, App, V100, MappingTxt>>}),
     Disk({<<<<106, 115>>, App, V100, <<109, 97, 105, 110, 46, 106, 115, 46, 109, 97, 112>>>>,
           <<<<101, 108, 101, 99, 116, 114, 111, 110>>, App, V100, <<105, 110, 100, 101, 120, 46, 106, 115, 46, 109, 97, 112>>>>}),
     Disk({<<<<103, 111>>, App, V100, <<97, 46, 84, 88, 84>>>>,
           <<<<103, 111>>, App, V100, <<98, 46, 109, 97, 112>>>>,
           <<<<103, 111>>, App, V100, <<110, 111, 116, 101, 115>>>>}),
     Disk({<<OtherApp, App, V100, MappingTxt>>})}

ScanStart ==
    /\ mstore \in ScanDisks
    /\ mcall = NoCall
    /\ mret = Null
    /\ msaves = 0

\* store.scan()
Scan ==
    /\ \E r \in scan(mstore) :
          /\ mstore' = r.store
          /\ mret' = r.ret
    /\ mcall' = [op |-> "scan"]
    /\ UNCHANGED msaves

\* store.save_mapping(platform, app_id, version, filename, content) of a
\* mapping of the scanned app
ScanSave ==
    /\ msaves < MaxSaves
    /\ \E p \in {Android, Go}, v \in {V100, <<50, 46, 48, 46, 48>>}, io \in IoOutcomes :
          LET r == save_mapping(mstore, p, App, v, MappingTxt, "saved", io)
          IN  /\ mstore' = r.store
              /\ mret' = r.ret
              /\ mcall' = [op |-> "save_mapping", platform |-> p, app_id |-> App,
                           version |-> v, filename |-> MappingTxt]
    /\ msaves' = msaves + 1

\* the paths a caller hands to add_mapping: a file of the store, or a path
\* where nothing is
AddPaths(store) == FilePaths(store) \cup {<<<<103, 111, 110, 101>>, MappingTxt>>}

\* store.add_mapping(platform, app_id, version, path)
AddMapping ==
    /\ msaves < MaxSaves
    /\ \E p \in {Android, Go}, path \in AddPaths(mstore) :
          /\ mstore' = [mstore EXCEPT !.cache = add_mapping(@, p, App, V100, path)]
          /\ mcall' = [op |-> "add_mapping", platform |-> p, app_id |-> App,
                       version |-> V100, path |-> path]
    /\ mret' = Null
    /\ msaves' = msaves + 1

\* store.get(platform, app_id, version)
Get ==
    /\ \E p \in {Android, Go, [p |-> "Electron"]}, v \in LookupVersions :
          /\ mret' = get(mstore.cache, p, App, v)
          /\ mcall' = [op |-> "get", platform |-> p, app_id |-> App, version |-> v]
    /\ UNCHANGED <<mstore, msaves>>

ScanStep == Scan \/ ScanSave \/ AddMapping \/ Get

(***************************************************************************)
(* Specifications.  Each runs one component; the others stay idle.         *)
(***************************************************************************)
ChunkInit == ChunkStart /\ StoreStart /\ EventIdle /\ GroupsIdle /\ FetchIdle /\ ServeIdle /\ ZipIdle /\ MappingIdle /\ ProguardIdle /\ SymIdle
ChunkNext == ChunkStep /\ UNCHANGED <<eventVars, groupVars, storeVars, fetchVars, serveVars, zipVars, mappingVars, proguardVars, symVars>>
SpecChunk == ChunkInit /\ [][ChunkNext]_vars

StoreInit == ChunkIdle /\ StoreStart /\ EventIdle /\ GroupsIdle /\ FetchIdle /\ ServeIdle /\ ZipIdle /\ MappingIdle /\ ProguardIdle /\ SymIdle
StoreNext == StoreStep /\ UNCHANGED <<eventVars, groupVars, chunkVars, fetchVars, serveVars, zipVars, mappingVars, proguardVars, symVars>>
SpecStore == StoreInit /\ [][StoreNext]_vars

FetchInit == ChunkIdle /\ StoreStart /\ EventIdle /\ GroupsIdle /\ FetchStart /\ ServeIdle /\ ZipIdle /\ MappingIdle /\ ProguardIdle /\ SymIdle
FetchNext == FetchStep /\ UNCHANGED <<eventVars, groupVars, chunkVars, storeVars, serveVars, zipVars, mappingVars, proguardVars, symVars>>
SpecFetch == FetchInit /\ [][FetchNext]_vars

ServeInit == ChunkIdle /\ StoreStart /\ EventIdle /\ GroupsIdle /\ FetchIdle /\ ServeStart /\ ZipIdle /\ MappingIdle /\ ProguardIdle /\ SymIdle
ServeNext == ServeStep /\ UNCHANGED <<eventVars, groupVars, chunkVars, fetchVars, ret, calls, deleted, zipVars, mappingVars, proguardVars, symVars>>
SpecServe == ServeInit /\ [][ServeNext]_vars

ZipInit == ChunkIdle /\ StoreStart /\ EventIdle /\ GroupsIdle /\ FetchIdle /\ ServeIdle /\ ZipStart /\ MappingIdle /\ ProguardIdle /\ SymIdle
ZipNext == ZipStep /\ UNCHANGED <<eventVars, groupVars, chunkVars, storeVars, fetchVars, serveVars, mappingVars, proguardVars, symVars>>
SpecZip == ZipInit /\ [][ZipNext]_vars

MappingInit == ChunkIdle /\ StoreStart /\ EventIdle /\ GroupsIdle /\ FetchIdle /\ ServeIdle /\ ZipIdle /\ MappingStart /\ ProguardIdle /\ SymIdle
MappingNext == MappingStep /\ UNCHANGED <<eventVars, groupVars, chunkVars, storeVars, fetchVars, serveVars, zipVars, proguardVars, symVars>>
SpecMapping == MappingInit /\ [][MappingNext]_vars

ProguardInit ==
    /\ ChunkIdle /\ StoreStart /\ EventIdle /\ GroupsIdle /\ FetchIdle /\ ServeIdle /\ ZipIdle /\ MappingIdle
    /\ ProguardStart /\ SymIdle
ProguardNext ==
    ProguardStep /\ UNCHANGED <<eventVars, groupVars, chunkVars, storeVars, fetchVars, serveVars, zipVars,
                                 mappingVars, symVars>>
SpecProguard == ProguardInit /\ [][ProguardNext]_vars

SymInit ==
    /\ ChunkIdle /\ StoreStart /\ EventIdle /\ GroupsIdle /\ FetchIdle /\ ServeIdle /\ ZipIdle /\ MappingIdle
    /\ ProguardIdle /\ SymStart
SymNext ==
    SymStep /\ UNCHANGED <<eventVars, groupVars, chunkVars, storeVars, fetchVars, serveVars, zipVars,
                            mappingVars, proguardVars>>
SpecSym == SymInit /\ [][SymNext]_vars

GroupsInit ==
    /\ ChunkIdle /\ StoreStart /\ EventIdle /\ GroupsStart /\ FetchIdle /\ ServeIdle /\ ZipIdle
    /\ MappingIdle /\ ProguardIdle /\ SymIdle
GroupsNext ==
    GroupsStep /\ UNCHANGED <<eventVars, chunkVars, fetchVars, serveVars, zipVars, mappingVars,
                               proguardVars, symVars>>
SpecGroups == GroupsInit /\ [][GroupsNext]_vars

EventInit ==
    /\ ChunkIdle /\ StoreStart /\ EventStart /\ GroupsIdle /\ FetchIdle /\ ServeIdle
    /\ ZipIdle /\ MappingIdle /\ ProguardIdle /\ SymIdle
EventNext ==
    EventStep /\ UNCHANGED <<chunkVars, storeVars, groupVars, fetchVars, serveVars,
                              zipVars, mappingVars, proguardVars, symVars>>
SpecEvent == EventInit /\ [][EventNext]_vars

PlatformInit ==
    /\ ChunkIdle /\ StoreStart /\ EventIdle /\ GroupsIdle /\ FetchIdle /\ ServeIdle
    /\ ZipIdle /\ MappingIdle /\ ProguardIdle /\ PlatformStart
PlatformNext ==
    PlatformStep /\ UNCHANGED <<chunkVars, storeVars, groupVars, fetchVars, serveVars,
                                 zipVars, mappingVars, proguardVars, eventVars>>
SpecPlatform == PlatformInit /\ [][PlatformNext]_vars

ReassembleInit ==
    /\ ReassembleStart /\ StoreStart /\ EventIdle /\ GroupsIdle /\ FetchIdle /\ ServeIdle
    /\ ZipIdle /\ MappingIdle /\ ProguardIdle /\ SymIdle
ReassembleNext ==
    ReassembleStep /\ UNCHANGED <<storeVars, groupVars, fetchVars, serveVars, zipVars,
                                  mappingVars, proguardVars, symVars, eventVars>>
SpecReassemble == ReassembleInit /\ [][ReassembleNext]_vars

RoutingInit ==
    /\ ChunkIdle /\ StoreStart /\ EventIdle /\ GroupsIdle /\ FetchIdle /\ RoutingStart
    /\ ZipIdle /\ MappingIdle /\ ProguardIdle /\ SymIdle
SpecRouting == RoutingInit /\ [][ServeNext]_vars

ScanInit ==
    /\ ChunkIdle /\ StoreStart /\ EventIdle /\ GroupsIdle /\ FetchIdle /\ ServeIdle
    /\ ZipIdle /\ ScanStart /\ ProguardIdle /\ SymIdle
ScanNext ==
    ScanStep /\ UNCHANGED <<chunkVars, storeVars, groupVars, fetchVars, serveVars,
                            zipVars, proguardVars, symVars, eventVars>>
SpecScan == ScanInit /\ [][ScanNext]_vars

FetchLiveInit == ChunkIdle /\ StoreStart /\ EventIdle /\ GroupsIdle /\ FetchLiveStart /\ ServeIdle /\ ZipIdle /\ MappingIdle /\ ProguardIdle /\ SymIdle
FetchLiveNext == FetchLiveStep /\ UNCHANGED <<eventVars, groupVars, chunkVars, storeVars, serveVars, zipVars, mappingVars, proguardVars, symVars>>
SpecFetchLive == FetchLiveInit /\ [][FetchLiveNext]_vars /\ FetchFairness

\* C3. Chunk round-trip: for every payload larger than 50 KiB, reassembling
\* the manifest and chunks produced by chunk_payload returns exactly the
\* payload, whatever the order of the chunk list handed to reassemble_payload.
C3_RoundTrip ==
    (cpc = "done" /\ BLen(payload) > 50 * 1024 /\ tampered = -1)
        => (cres.ok /\ rres = [ok |-> TRUE, bytes |-> payload])

C3_Witness ==
    /\ cpc = "done"
    /\ BLen(payload) > 50 * 1024
    /\ tampered = -1
    /\ Len(given) >= 3
    /\ given # cres.chunks
    /\ Len(payload) = 2
    /\ rres.ok

\* the altered chunk, and the chunk chunk_payload produced at its index
TamperedChunk == CHOOSE c \in {given[i] : i \in 1..Len(given)} : c.index = tampered
OriginalChunk == cres.chunks[tampered + 1]

\* the hash field spells a different hex value: other bytes, or another length
DifferentHexValue ==
    /\ TamperedChunk.hash.valid
    /\ <<TamperedChunk.hash.bytes, TamperedChunk.hash.nbytes>>
         # <<OriginalChunk.hash.bytes, OriginalChunk.hash.nbytes>>

C10_OneThreshold ==
    LET n == BLen(payload)
    IN  /\ transport # "none" => (transport = "Direct" <=> n <= 50 * 1024)
        /\ (transport # "none" /\ cres # Null) =>
              /\ (cres = Err("PayloadTooSmall") <=> transport = "Direct")
              /\ (n > 50 * 1024 => cres.ok)

C10_Witness ==
    /\ transport = "Chunked"
    /\ cres # Null
    /\ cres.ok
    /\ BLen(payload) = 50 * 1024 + 1

C10_WitnessDirect ==
    /\ transport = "Direct"
    /\ cres = Err("PayloadTooSmall")
    /\ BLen(payload) = 50 * 1024

\* the insert calls made so far that were the first for their event_id
FirstCalls ==
    {i \in 1..Len(calls) :
        \A j \in 1..(i - 1) : calls[j].report.event_id # calls[i].report.event_id}

\* C1. insert is idempotent per event_id: the first insert of an event_id
\* creates one row and returns Some(id); every later insert with that
\* event_id, whatever its other fields, returns None and leaves the table
\* unchanged; without deletes, count() is the number of distinct event_ids
\* inserted.
C1_InsertIdempotent ==
    ~deleted =>
        /\ \A i \in 1..Len(calls) :
              IF i \in FirstCalls
              THEN \E row \in db.rows :
                      /\ calls[i].ret = Some(row.id)
                      /\ row = [calls[i].report EXCEPT !.id = row.id]
              ELSE calls[i].ret = None
        /\ \A row \in db.rows :
              \E i \in FirstCalls : row = [calls[i].report EXCEPT !.id = row.id]
        /\ count(db) = Cardinality({calls[i].report.event_id : i \in 1..Len(calls)})

C1_Witness ==
    /\ ~deleted
    /\ Len(calls) >= 3
    /\ calls[1].report.event_id = calls[2].report.event_id
    /\ calls[1].report # calls[2].report
    /\ calls[2].ret = None
    /\ calls[3].ret = Some(2)
    /\ count(db) = 2

(***************************************************************************)
(* Claims about the chunk fetcher (SpecFetch).                             *)
(***************************************************************************)

\* every chunk id has a relay hint, and the chunk is stored on its first
\* hinted relay, which answers
HintedOnHolder ==
    /\ fmanifest.chunk_relays # None
    /\ \A i \in 1..Len(ChunkIds) :
          /\ ChunkIds[i] \in DOMAIN fmanifest.chunk_relays.some
          /\ fmanifest.chunk_relays.some[ChunkIds[i]] # <<>>
          /\ LET first == Head(fmanifest.chunk_relays.some[ChunkIds[i]])
             IN  mode[first] = "up" /\ ChunkEvent(i) \in holds[first]

\* C6: when every chunk id is hinted at a relay that holds the chunk, the
\* hinted phase alone collects all chunks: the fallback phase never starts
\* and fetch_chunks returns the chunks.
C6_HintedPhaseAlone ==
    HintedOnHolder =>
        /\ fpc # "fallback"
        /\ fpc = "returned" => fres = [ok |-> TRUE, chunks |-> FetchChunks]

\* no hints, every relay honest, every chunk on at least one relay that answers
HeldSomewhere ==
    /\ fmanifest.chunk_relays = None
    /\ \A r \in Relays : mode[r] # "rogue"
    /\ \A i \in 1..Len(ChunkIds) :
          \E r \in Relays : mode[r] = "up" /\ ChunkEvent(i) \in holds[r]

\* C7: with no hints and every chunk held by some responsive relay, the
\* fallback tasks together collect every chunk, fetch_chunks returns them in
\* index order, and the reassembled payload is the original.
C7_FallbackAggregates ==
    HeldSomewhere =>
        /\ (fpc = "fallback" /\ AllDone) =>
              DOMAIN fchunks = 0..(Len(ChunkIds) - 1)
        /\ fpc \in {"returned", "reassembled"} =>
              fres = [ok |-> TRUE, chunks |-> FetchChunks]
        /\ fpc = "reassembled" => fout = [ok |-> TRUE, bytes |-> FetchPayload]

\* C7 witness: the chunks are on relays A and C only, neither holds them all,
\* and the fetch has returned and been reassembled into the original.
C7_Witness ==
    /\ HeldSomewhere
    /\ holds["B"] = {}
    /\ holds["A"] # {} /\ holds["C"] # {}
    /\ \A r \in Relays : Cardinality(holds[r]) < Len(ChunkIds)
    /\ fpc = "reassembled"
    /\ fout = [ok |-> TRUE, bytes |-> FetchPayload]

(***************************************************************************)
(* Claims about the receiver (SpecServe).                                  *)
(***************************************************************************)

\* the kind of the rumor inside the gift wrap with this event id
KindOfEvent(id) == (CHOOSE w \in AllWraps : w.id = id).rumor.kind

\* the crashes the receiver holds anywhere: in a blocked send, in the
\* queue, in the worker's hands, in the store
HeldEventIds ==
    {sub[r].crash.some.event_id : r \in {q \in ServeRelays : sub[q].crash # None}}
    \cup {queue[i].event_id : i \in 1..Len(queue)}
    \cup (IF worker.crash # None THEN {worker.crash.some.event_id} ELSE {})
    \cup {row.event_id : row \in db.rows}

\* a gift wrap sealed to the receiver whose rumor is a report in itself
DirectReport(g) ==
    g.to = ReceiverKey /\ ~is_chunked_kind(rumor_kind_of(g.rumor))

\* C2: once both subscriptions have taken the same gift wrap and nothing is
\* left in flight, the store holds exactly one row with its event id.
C2_ExactlyOneRow ==
    \A g \in stored :
        ( /\ cmd = "serve"
          /\ DirectReport(g)
          /\ \A r \in ServeRelays : g.id \in sub[r].seen /\ sub[r].pc # "send"
          /\ queue = <<>>
          /\ worker.pc # "insert" )
        => Cardinality({row \in db.rows : row.event_id = g.id}) = 1

\* C4: no subscription task, of serve or of listen, ever terminates.
C4_ReconnectForever ==
    \A r \in ServeRelays : sub[r].pc # "exited"

\* C5: the queue never holds more than 100 crashes, and a crash a
\* subscription has accepted is in that subscriber's pending send, in the
\* queue, or has been received by the storage worker: none is discarded.
C5_NoAcceptedEventLost ==
    /\ Len(queue) <= QUEUE_CAPACITY
    /\ \A r \in ServeRelays : \A g \in stored :
          (cmd = "serve" /\ DirectReport(g) /\ g.id \in sub[r].seen)
              => g.id \in HeldEventIds

\* C8: every crash sent to the queue or stored comes from a rumor of kind
\* 14, 10420 or 10421.
C8_OnlyCrashKinds ==
    \A id \in HeldEventIds : is_crash_report_kind(KindOfEvent(id))

(***************************************************************************)
(* Claims about chunk counts (SpecChunk).                                  *)
(***************************************************************************)

\* ceil(size / 48 KiB), computed without the rounding trick of the code
CeilChunks(size) ==
    CHOOSE n \in 0..(size \div MAX_CHUNK_SIZE + 1) :
        n * MAX_CHUNK_SIZE >= size /\ (n = 0 \/ (n - 1) * MAX_CHUNK_SIZE < size)

\* the plaintext bytes a chunk covers
PlainLen(chunk) == BLen(decrypt_chk(base64_decode(chunk.data).bytes,
                                    hex_decode(chunk.hash).bytes).plain)

\* C11: a payload above 50 KiB is chunked into n = ceil(|P| / 48 KiB) chunks
\* with indices 0..n-1 in order, n = manifest.chunk_count =
\* expected_chunk_count(|P|), every chunk but the last covers 48 KiB, and
\* manifest.total_size = |P|.
C11_ChunkCount ==
    (cpc # "start" /\ BLen(payload) > DIRECT_SIZE_THRESHOLD) =>
        LET n == CeilChunks(BLen(payload))
        IN  /\ cres.ok
            /\ Len(cres.chunks) = n
            /\ \A i \in 1..n : cres.chunks[i].index = i - 1
            /\ cres.manifest.chunk_count = n
            /\ expected_chunk_count(BLen(payload)) = n
            /\ \A i \in 1..(n - 1) : PlainLen(cres.chunks[i]) = MAX_CHUNK_SIZE
            /\ PlainLen(cres.chunks[n]) = BLen(payload) - (n - 1) * MAX_CHUNK_SIZE
            /\ PlainLen(cres.chunks[n]) > 0
            /\ cres.manifest.total_size = BLen(payload)

\* C11 witness: the 51201-byte payload has been chunked into 2 chunks.
C11_Witness ==
    /\ cpc # "start"
    /\ BLen(payload) = 50 * 1024 + 1
    /\ cres.ok
    /\ Len(cres.chunks) = 2

(***************************************************************************)
(* Claims about the compression envelope (SpecZip).                        *)
(***************************************************************************)

DecodableEnvelope(s) ==
    /\ "json" \in DOMAIN s
    /\ "obj" \in DOMAIN s.json
    /\ {"v", "compression", "payload"} \subseteq DOMAIN s.json.obj
    /\ s.json.obj.v \in 0..255
    /\ "gzb64" \in DOMAIN s.json.obj.payload

\* C13: on every input that is not a decodable gzip envelope
\* decompress_payload returns the input unchanged.
C13_NeverFails ==
    (zop = "decompress" /\ ~DecodableEnvelope(zin)) => zout = [ok |-> TRUE, text |-> zin]

BadComponent(c) ==
    \/ c = <<>>
    \/ c = <<46>>
    \/ c = <<46, 46>>
    \/ \E i \in 1..(Len(c) - 1) : c[i] = 46 /\ c[i + 1] = 46
    \/ \E i \in 1..Len(c) : c[i] = 47 \/ c[i] = 92

BadCall(call) ==
    /\ call.op = "save_mapping"
    /\ \/ BadComponent(as_str(call.platform))
       \/ BadComponent(call.app_id)
       \/ BadComponent(call.version)
       \/ BadComponent(call.filename)

\* C15: a save_mapping call with a bad platform name, app_id, version or
\* filename returns InvalidPath and leaves directories, files and the cache
\* as they were.
C15_ValidatedBeforeEffect ==
    [][BadCall(mcall') =>
          /\ ~mret'.ok
          /\ mret'.err = "InvalidPath"
          /\ mstore' = mstore]_vars

\* C15 witness: a store that already holds a mapping refused a bad filename.
C15_Witness ==
    /\ mcall.op = "save_mapping"
    /\ BadComponent(mcall.filename)
    /\ ~mret.ok
    /\ mret.err = "InvalidPath"
    /\ mstore.cache # {}

\* the version order of the fallback on two parse results
NotNewerParsed(a, b, va, vb) ==
    IF va.ok /\ vb.ok
    THEN \/ va.major < vb.major
         \/ va.major = vb.major /\ va.minor < vb.minor
         \/ va.major = vb.major /\ va.minor = vb.minor /\ va.patch < vb.patch
         \/ /\ va.major = vb.major /\ va.minor = vb.minor /\ va.patch = vb.patch
            /\ \/ vb.pre = <<>>
               \/ va.pre # <<>> /\ cmp_str(va.pre, vb.pre) # "Greater"
    ELSE IF va.ok THEN FALSE
    ELSE IF vb.ok THEN TRUE
    ELSE cmp_str(a, b) # "Greater"

\* a is not newer than b
NotNewer(a, b) == NotNewerParsed(a, b, Version_parse(a), Version_parse(b))

SameApp(call) ==
    {e \in mstore.cache : e.key.platform = call.platform /\ e.key.app_id = call.app_id}

ClassLineOf(i) ==
    IF \E j \in 1..(i - 1) : pfile[j].k = "class"
    THEN CHOOSE j \in 1..(i - 1) :
            pfile[j].k = "class" /\ \A h \in (j + 1)..(i - 1) : pfile[h].k # "class"
    ELSE 0

\* the lines of the mapping file that map the method of the frame, by kind
MemberLines(kind) ==
    {i \in 1..Len(pfile) :
        /\ pfile[i].k = kind
        /\ pfile[i].obfuscated = pcall.method
        /\ ClassLineOf(i) # 0
        /\ pfile[ClassLineOf(i)].obfuscated = pcall.class}

\* the range lines whose obfuscated range holds the line of the frame
Containing ==
    IF pcall.line = None THEN {}
    ELSE {i \in MemberLines("method") :
             pfile[i].obf_start <= pcall.line.some /\ pcall.line.some <= pfile[i].obf_end}

OrigStart(i) ==
    IF pfile[i].orig_start = None THEN pfile[i].obf_start ELSE pfile[i].orig_start.some

\* C17: for a frame of a class of the mapping, the first range entry in file
\* order that holds the line gives the method and the line origStart + (line
\* - obfStart); when none holds it but the method is mapped, the result has
\* an original name of the method and the line of the frame; every range
\* line of an obfuscated name is kept as an entry.
C17_FrameResolution ==
    (pcall.op = "deobfuscate_frame"
        /\ \E j \in 1..Len(pfile) : pfile[j].k = "class" /\ pfile[j].obfuscated = pcall.class)
    => /\ pret # None
       /\ \E j \in 1..Len(pfile) :
             /\ pfile[j].k = "class" /\ pfile[j].obfuscated = pcall.class
             /\ pret.some.class = pfile[j].original
       /\ Containing # {} =>
             LET first == CHOOSE i \in Containing : \A j \in Containing : i <= j
             IN  /\ pret.some.method = pfile[first].name
                 /\ pret.some.line
                        = Some(OrigStart(first) + (pcall.line.some - pfile[first].obf_start))
       /\ (Containing = {} /\ MemberLines("method") \cup MemberLines("method_no_line") # {})
             => /\ \E i \in MemberLines("method") \cup MemberLines("method_no_line") :
                       pret.some.method = pfile[i].name
                /\ pret.some.line = pcall.line
       /\ \A c \in pmapping.classes :
             c.obfuscated = pcall.class =>
                 Len(entries_of(c, pcall.method)) = Cardinality(MemberLines("method"))

\* C17 witness: line 5 lies in the ranges 1:5 and 3:8 of method a; the frame
\* resolved to the first, inlinedMethod at line 104.
C17_Witness ==
    /\ pcall.op = "deobfuscate_frame"
    /\ pcall.class = "a.a" /\ pcall.method = "a" /\ pcall.line = Some(5)
    /\ Cardinality(Containing) = 2
    /\ pret = Some([class |-> "com.example.Inlined", method |-> "inlinedMethod",
                    line |-> Some(104)])

(***************************************************************************)
(* Claims about the platform parsers (SpecSym).                            *)
(***************************************************************************)

\* the lines of the trace that are not empty
NonEmptyLines == {i \in 1..Len(ytrace) : ytrace[i].k # "blank"}

\* C18: whatever the platform, the total_count of a returned stack is the
\* number of non-empty lines of the trace.
C18_TotalCountsLines ==
    (ycall.op = "symbolicate" /\ yret.ok)
        => yret.stack.total_count = Cardinality(NonEmptyLines)

\* the store has no mapping for the platform and app of the request
NoMappingFile ==
    ~\E e \in ystore.cache :
        /\ e.key.platform = ycontext.platform
        /\ e.key.app_id = unwrap_or(ycontext.app_id, unknown)

\* C19: for each of the seven platforms symbolicate returns Ok when the
\* store has no mapping file for the request.
C19_OkWithoutMapping ==
    (ycall.op = "symbolicate" /\ ycontext.platform \in Platforms /\ NoMappingFile)
        => yret.ok

\* the rows of the table that fall in the group named `name`: those whose
\* exception_type is that name, and for 'Unknown' also those without one
RowsNamed(name) ==
    {row \in db.rows :
        \/ row.exception_type = Some(name)
        \/ name = "Unknown" /\ row.exception_type = None}

GroupNames == {"Unknown", "NullPointerException", "IOException"}

\* C20. get_groups aggregates all rows by coalesce(exception_type,
\* 'Unknown'): every returned group carries a distinct value that occurs in
\* the table, its count is the number of rows with that value (rows without
\* a type fall in 'Unknown'), first_seen and last_seen are the least and
\* greatest received_at of those rows; the groups come by count descending,
\* and the result holds min(limit, number of distinct values) of them, none
\* left out having more rows than one returned; k inserts with distinct
\* event ids and one exception_type give one group with count k.
C20_Groups ==
    groups # None =>
        LET result == groups.some
            named  == {name \in GroupNames : RowsNamed(name) # {}}
        IN  /\ \A i \in 1..Len(result) :
                  LET g == result[i]
                      rows == RowsNamed(g.exception_type)
                  IN  /\ g.exception_type \in named
                      /\ g.count = Cardinality(rows)
                      /\ \A row \in rows : g.first_seen <= row.received_at
                                           /\ row.received_at <= g.last_seen
                      /\ \E row \in rows : row.received_at = g.first_seen
                      /\ \E row \in rows : row.received_at = g.last_seen
            /\ \A i, j \in 1..Len(result) :
                  /\ i # j => result[i].exception_type # result[j].exception_type
                  /\ i < j => result[i].count >= result[j].count
            /\ Len(result) = IF glimit < Cardinality(named)
                             THEN glimit ELSE Cardinality(named)
            /\ \A name \in named :
                  (\A i \in 1..Len(result) : result[i].exception_type # name)
                      => \A i \in 1..Len(result) :
                            result[i].count >= Cardinality(RowsNamed(name))
            /\ (/\ glimit >= 1
                /\ calls # <<>>
                /\ \A i \in 1..Len(calls) :
                      calls[i].report.exception_type = calls[1].report.exception_type)
                  => /\ Len(result) = 1
                     /\ result[1].count = Len(calls)

\* C20 witness: three rows, one without a type, one of type 'Unknown' and
\* one NullPointerException; get_groups(1) returned the 'Unknown' group alone,
\* with count 2 and first_seen before last_seen.
C20_Witness ==
    /\ groups # None
    /\ glimit = 1
    /\ Cardinality(db.rows) = 3
    /\ \E row \in db.rows : row.exception_type = None
    /\ \E row \in db.rows : row.exception_type = Some("Unknown")
    /\ \E row \in db.rows : row.exception_type = Some("NullPointerException")
    /\ Len(groups.some) = 1
    /\ groups.some[1].exception_type = "Unknown"
    /\ groups.some[1].count = 2
    /\ groups.some[1].first_seen < groups.some[1].last_seen

\* the rows stored for the gift wrap whose rumor is the direct payload
\* {"v":1,"crash":{"message":"boom","stack":"at x.rs:1"}}
BoomRows == {row \in db.rows : row.event_id = "direct"}

\* C21. A rumor of kind 10420 with content
\* {"v":1,"crash":{"message":"boom","stack":"at x.rs:1"}} is stored with
\* message "boom", stack_trace "at x.rs:1" and a null exception_type: no
\* token ending in Exception or Error precedes the first colon.
C21_DirectStored ==
    \A row \in BoomRows :
        /\ row.message = Some(BoomCrash.obj.message.str)
        /\ row.stack_trace = Some(BoomCrash.obj.stack.str)
        /\ row.exception_type = None

\* the crashes a subscriber, the queue or the worker holds, by event id
HeldCrashes(id) ==
    {sub[r].crash.some : r \in {q \in ServeRelays :
                                   sub[q].crash # None /\ sub[q].crash.some.event_id = id}}
    \cup {queue[i] : i \in {j \in 1..Len(queue) : queue[j].event_id = id}}
    \cup (IF worker.crash # None /\ worker.crash.some.event_id = id
          THEN {worker.crash.some} ELSE {})

\* the fields of a row that parse_crash_content and the rumor's content fill
ParsedFields(row) ==
    [message |-> row.message, stack_trace |-> row.stack_trace,
     exception_type |-> row.exception_type, environment |-> row.environment,
     release |-> row.release, app_name |-> row.app_name,
     app_version |-> row.app_version, raw_content |-> row.raw_content]

\* C22. Compression is transparent: the crash emitted for the kind 10420
\* rumor whose content is the gzip envelope of a DirectPayload JSON has the
\* content of the crash emitted for the rumor that carries that JSON itself
\* (the serialized crash object), and the rows stored for the two agree in
\* every parsed field.
C22_CompressionTransparent ==
    /\ \A c \in HeldCrashes("gzip") \cup HeldCrashes("direct") :
          c.content = [json |-> BoomCrash]
    /\ \A row \in db.rows :
          row.event_id \in {"gzip", "direct"}
              => ParsedFields(row) =
                    ParsedFields(Report([event_id |-> "x", sender_pubkey |-> "x",
                                         created_at |-> 0,
                                         content |-> [json |-> BoomCrash]],
                                        parse_crash_content([json |-> BoomCrash]), 0))

\* C22 witness: the store holds a row for the plain rumor and a row for the
\* compressed one, with the same parsed fields.
C22_Witness ==
    \E a, b \in db.rows :
        /\ a.event_id = "direct"
        /\ b.event_id = "gzip"
        /\ ParsedFields(a) = ParsedFields(b)
        /\ a.message = Some(BoomCrash.obj.message.str)

\* two characters that are the same letter in either case
SameLetter(c, d) ==
    \/ c = d
    \/ {c, d} \in {{97, 65}, {98, 66}}

\* two strings that differ in case only
SameIgnoringCase(p, q) ==
    /\ Len(p) = Len(q)
    /\ \A i \in 1..Len(p) : SameLetter(p[i], q[i])

\* a string without upper-case letters
IsLowerCase(p) == \A i \in 1..Len(p) : p[i] \notin {65, 66}

\* two argument lists of new that differ in the case of the pubkey only
SameButCase(a, b) ==
    /\ SameIgnoringCase(a.pubkey, b.pubkey)
    /\ a.created_at = b.created_at /\ a.kind = b.kind
    /\ a.tags = b.tags /\ a.content = b.content

\* C23. compute_id is deterministic and blind to the case of the pubkey:
\* all calls on one event return the same lower-case hex string of 64
\* characters; two events built with arguments that differ in the case of
\* the pubkey only have the same id; to_json gives the pubkey in lower
\* case, the id, and sig as the empty string.
C23_IdDeterministic ==
    /\ \A i \in 1..Len(evs) :
          /\ Cardinality(eouts[i].ids) <= 1
          /\ \A id \in eouts[i].ids :
                id.valid /\ ~id.upper /\ 2 * id.nbytes = 64
          /\ eouts[i].json # None =>
                LET o == eouts[i].json.some.json.obj
                IN  /\ IsLowerCase(o.pubkey)
                    /\ SameIgnoringCase(o.pubkey, evs[i].args.pubkey)
                    /\ o.sig = <<>>
                    /\ \A id \in eouts[i].ids : o.id = id
    /\ \A i, j \in 1..Len(evs) :
          SameButCase(evs[i].args, evs[j].args) =>
              /\ \A x \in eouts[i].ids, y \in eouts[j].ids : x = y
              /\ (eouts[i].json # None /\ eouts[j].json # None)
                    => eouts[i].json = eouts[j].json

\* C23 witness: one event built with pubkey "AA", one with "aa" and else the
\* same arguments; compute_id and to_json were called on both.
C23_Witness ==
    /\ Len(evs) = 2
    /\ evs[1].args.pubkey = <<65, 65>>
    /\ evs[2].args.pubkey = <<97, 97>>
    /\ SameButCase(evs[1].args, evs[2].args)
    /\ eouts[1].ids # {} /\ eouts[2].ids = eouts[1].ids
    /\ eouts[1].json # None /\ eouts[2].json # None
    /\ eouts[1].json.some.json.obj.pubkey = <<97, 97>>

(***************************************************************************)
(* C24: platform selection.                                                *)
(***************************************************************************)
\* the names of the seven platforms, in lower case
PlatformTable ==
    {<<<<97, 110, 100, 114, 111, 105, 100>>, "Android">>,
     <<<<101, 108, 101, 99, 116, 114, 111, 110>>, "Electron">>,
     <<<<106, 97, 118, 97, 115, 99, 114, 105, 112, 116>>, "Electron">>,
     <<<<106, 115>>, "Electron">>,
     <<<<102, 108, 117, 116, 116, 101, 114>>, "Flutter">>,
     <<<<100, 97, 114, 116>>, "Flutter">>,
     <<<<114, 117, 115, 116>>, "Rust">>,
     <<<<103, 111>>, "Go">>,
     <<<<103, 111, 108, 97, 110, 103>>, "Go">>,
     <<<<112, 121, 116, 104, 111, 110>>, "Python">>,
     <<<<114, 101, 97, 99, 116, 45, 110, 97, 116, 105, 118, 101>>, "ReactNative">>,
     <<<<114, 101, 97, 99, 116, 110, 97, 116, 105, 118, 101>>, "ReactNative">>,
     <<<<114, 110>>, "ReactNative">>}

\* s and t are the same string up to the case of ASCII letters
SameFolded(s, t) ==
    /\ Len(s) = Len(t)
    /\ \A i \in 1..Len(s) :
          \/ s[i] = t[i]
          \/ s[i] \in 65..90 /\ t[i] = s[i] + 32
          \/ t[i] \in 65..90 /\ s[i] = t[i] + 32

NamedPlatforms(s) == {e[2] : e \in {e \in PlatformTable : SameFolded(e[1], s)}}

ParsedPlatform == ycontext # Null /\ yname # None

\* C24: from_str ignores case and maps the thirteen names to the seven
\* platforms, from_str(as_str(p)) = p for each of the seven, every other string
\* gives Unknown, and symbolicate with an Unknown platform returns
\* UnsupportedPlatform and nothing else.
C24_PlatformSelection ==
    ParsedPlatform =>
        /\ \A name \in NamedPlatforms(yname.some) : ycontext.platform = [p |-> name]
        /\ \A p \in Platforms : yname.some = as_str(p) => ycontext.platform = p
        /\ NamedPlatforms(yname.some) = {} =>
              /\ DOMAIN ycontext.platform = {"unknown"}
              /\ ycall.op = "symbolicate" =>
                    /\ ~yret.ok
                    /\ yret.err = "UnsupportedPlatform"
                    /\ DOMAIN yret = {"ok", "err", "platform"}

C24_Witness ==
    /\ ParsedPlatform
    /\ ycall.op = "symbolicate"
    /\ NamedPlatforms(yname.some) = {}
    /\ yret.err = "UnsupportedPlatform"

(***************************************************************************)
(* C25: a serve-mode subscriber whose send fails.                          *)
(***************************************************************************)
\* tx.send(crash) of relay r's task returns Err in this step: the receiver
\* was dropped
FailedSend(r) ==
    /\ cmd = "serve"
    /\ sub[r].pc = "send"
    /\ worker.pc = "dead"
    /\ sub'[r] # sub[r]

\* C25: once the receiver of the crash queue is closed, a serve-mode
\* subscriber task ends with its first failed send: it does not sleep,
\* reconnect or read again.
C25_TaskStops ==
    [][\A r \in ServeRelays : FailedSend(r) => sub'[r].pc = "exited"]_vars

(***************************************************************************)
(* C26: the dedup set of a relay connection.                               *)
(***************************************************************************)
\* relay r's task has been handed a crash for the queue in this step
Produced(r) == sub'[r].crash # None /\ sub'[r].crash # sub[r].crash

\* C26: on one connection a gift-wrap id is processed at most once: the id of
\* every EVENT frame handled is in the connection's dedup set afterwards,
\* whether or not it could be decrypted or gave a crash; an id already in the
\* set produces nothing and changes nothing; the set only grows while the
\* connection lasts, is empty on every (re)connection, and a step changes the
\* set of one subscription only.
C26_DedupPerConnection ==
    [][/\ \A r \in ServeRelays :
            /\ sub'[r].event # None => sub'[r].event.some \in sub'[r].seen
            /\ Produced(r) =>
                  /\ sub'[r].crash.some.event_id = sub'[r].event.some
                  /\ sub'[r].event.some \notin sub[r].seen
            /\ (sub[r].pc = "read" /\ sub'[r].pc \in {"read", "send"}) =>
                  /\ sub[r].seen \subseteq sub'[r].seen
                  /\ Cardinality(sub'[r].seen \ sub[r].seen) <= 1
            /\ (sub'[r].event # None /\ sub'[r].event.some \in sub[r].seen) =>
                  /\ sub'[r].seen = sub[r].seen
                  /\ sub'[r].crash = sub[r].crash \/ sub'[r].crash = None
            /\ (sub[r].pc = "connect" /\ sub'[r].pc = "read") => sub'[r].seen = {}
       /\ \A r, q \in ServeRelays :
            r # q => sub'[r].seen = sub[r].seen \/ sub'[q].seen = sub[q].seen
      ]_vars

\* a gift wrap that cannot be decrypted, the only event the relays hold, has
\* come in two EVENT frames and is in the set of the connection that read it
\* last; the other task has not connected and its set is empty
C26_Witness ==
    \E r, q \in ServeRelays :
        /\ r # q
        /\ sub[r].pc = "read"
        /\ sub[r].event = Some("foreign")
        /\ "foreign" \in sub[r].seen
        /\ frames >= 2
        /\ \A g \in stored : g.id = "foreign"
        /\ sub[q].pc = "connect"
        /\ sub[q].seen = {}

(***************************************************************************)
(* C27, C28: what reassemble_payload accepts.                              *)
(***************************************************************************)
Reassembled == cpc = "done" /\ rman # Null

\* C27: when reassemble_payload returns Ok(bytes) for a manifest, the length
\* of bytes equals the manifest's total_size; a manifest whose total_size
\* disagrees with its chunks does not reassemble.
C27_TotalSize ==
    (Reassembled /\ rres.ok) => BLen(rres.bytes) = rman.total_size

\* the index at position i (from 1) of the chunk list sorted by index
SortedIndexAt(chunks, i) ==
    LET upto(k) == Cardinality({j \in 1..Len(chunks) : chunks[j].index <= k})
    IN  CHOOSE k \in 0..MaxChunks + 1 :
            /\ upto(k) >= i
            /\ \A m \in 0..MaxChunks + 1 : upto(m) >= i => k <= m

\* positions, from 0, whose sorted index is not the position
Gaps(chunks) == {i \in 0..Len(chunks) - 1 : SortedIndexAt(chunks, i + 1) # i}

\* the chunk opens under the key its hash field spells
Decrypts(c) ==
    /\ hex_decode(c.hash).ok
    /\ hex_decode(c.hash).nbytes = KEY_LEN
    /\ base64_decode(c.data).ok
    /\ decrypt_chk(base64_decode(c.data).bytes, hex_decode(c.hash).bytes).ok

\* the keys by chunk index, when the indices are 0..n-1
KeysByIndex(chunks) ==
    [i \in 1..Len(chunks) |->
        (CHOOSE c \in ChunkSet(chunks) : c.index = i - 1).hash.bytes]

ExpectedReassembly ==
    IF Len(given) # rman.chunk_count THEN Err("InvalidManifest")
    ELSE IF Gaps(given) # {}
    THEN [ok |-> FALSE, err |-> "MissingChunk",
          index |-> CHOOSE i \in Gaps(given) : \A j \in Gaps(given) : i <= j]
    ELSE IF \E c \in ChunkSet(given) : ~Decrypts(c) THEN Err("DecryptionError")
    ELSE IF hex_encode(Sha256(KeysByIndex(given)), KEY_LEN) # rman.root_hash
    THEN Err("InvalidRootHash")
    ELSE [ok |-> TRUE]

ExpectedCount == Len(fmanifest.chunk_ids)

\* fetch_chunks is over: it returned, or it panicked
FetchOver == fpc \in {"returned", "reassembled", "panicked"}

\* some index of 0..n-1 has no entry in the map
IndexAbsent == \E i \in 0..ExpectedCount - 1 : i \notin DOMAIN fchunks

\* C29: an Ok of fetch_chunks for n > 0 chunk ids holds exactly n chunks with
\* result[i].index = i; when the fetch is over and an index of 0..n-1 is
\* absent from the map (the map reached n entries without it, or fewer than n
\* entries were collected), fetch_chunks has returned an error.
C29_OrderedOrError ==
    (fmanifest # Null /\ FetchOver /\ ExpectedCount > 0) =>
        /\ (fres # Null /\ fres.ok) =>
              /\ Len(fres.chunks) = ExpectedCount
              /\ \A i \in 1..ExpectedCount : fres.chunks[i].index = i - 1
        /\ IndexAbsent => (fres # Null /\ ~fres.ok)

\* C30: the shared map only holds indices of 0..n-1, so it never has more
\* than n entries and expected_count - current_count never underflows.
C30_MapInRange ==
    fmanifest # Null =>
        /\ DOMAIN fchunks \subseteq 0..ExpectedCount - 1
        /\ Cardinality(DOMAIN fchunks) <= ExpectedCount
        /\ fpc # "panicked"

(***************************************************************************)
(* C31: failures of one event in a serve-mode subscription.                *)
(***************************************************************************)
\* a text frame is handled in this step while relay r's task reads
FrameWhileReading(r) ==
    /\ cmd = "serve"
    /\ sub[r].pc = "read"
    /\ frames' = frames + 1

\* gift wraps of the routing scenario that cannot give a crash: one sealed to
\* another key, one whose manifest does not parse
Undeliverable == {"foreign", "badmanifest"}

\* the crash of a manifest is the reassembled report
ManifestCrash(crash) ==
    crash.content = decompress_or_raw(from_utf8_lossy(FetchPayload))

\* the frame left the task reading or sending, with a crash only from an
\* event that decrypts, parses, fetches and reassembles
StaysEventScoped(r) ==
    /\ proc' = "running"
    /\ sub'[r].pc \in {"read", "send"}
    /\ sub'[r].crash # None =>
          /\ sub'[r].crash.some.event_id \notin Undeliverable
          /\ sub'[r].crash.some.event_id \in {"manifest", "wide"} =>
                ManifestCrash(sub'[r].crash.some)

\* C31: a malformed frame, a gift wrap that fails to decrypt and a manifest
\* that fails to parse, fetch or reassemble drop that event only: nothing is
\* queued for it, the subscriber task neither fails nor closes, and it goes
\* on reading.
C31_EventScoped ==
    [][\A r \in ServeRelays : FrameWhileReading(r) => StaysEventScoped(r)]_vars

\* the same, leaving out the steps in which fetch_chunks panics
C31_ScopedUnlessPanic ==
    [][\A r \in ServeRelays :
          (FrameWhileReading(r) /\ proc' = "running" /\ sub'[r].pc # "panicked")
              => StaysEventScoped(r)]_vars

(***************************************************************************)
(* C32, C33: routing and content by rumor kind (SpecRouting).              *)
(***************************************************************************)
\* the contents the receiver holds for a gift wrap: in a pending send, the
\* queue, the worker's hands, the store
HeldContents(id) ==
    {c.content : c \in HeldCrashes(id)}
    \cup {row.raw_content : row \in {x \in db.rows : x.event_id = id}}

\* C32: a rumor goes through the manifest path (manifest parsed, chunks
\* fetched and reassembled) iff its u64 kind is 10421; a kind that differs
\* from 10421 by a multiple of 65536 does not.
C32_ExactRouting ==
    \A w \in stored :
        LET reassembled == decompress_or_raw(from_utf8_lossy(FetchPayload))
        IN  /\ w.rumor.kind = KIND_MANIFEST => HeldContents(w.id) \subseteq {reassembled}
            /\ w.rumor.kind # KIND_MANIFEST => reassembled \notin HeldContents(w.id)

\* C33: for kind 10420 the content emitted is the crash object of the
\* DirectPayload, serialized; for legacy kind 14 it is the decompressed rumor
\* content as it is, also when that content parses as a DirectPayload.
C33_ContentByKind ==
    /\ HeldContents("direct") \subseteq {[json |-> BoomCrash]}
    /\ HeldContents("legacy") \subseteq {DirectJson(BoomCrash)}

\* the part of C33 about kind 10420
C33_DirectUnwrapped ==
    HeldContents("direct") \subseteq {[json |-> BoomCrash]}

(***************************************************************************)
(* The mapping cache after scan, save_mapping and add_mapping              *)
(***************************************************************************)
OneEntryPerKey == \A e1, e2 \in mstore.cache : e1.key = e2.key => e1 = e2

EntriesAreFiles == \A e \in mstore.cache : e.info.path \in FilePaths(mstore)

SavedIsFound ==
    (mcall.op = "save_mapping" /\ mret # Null /\ mret.ok) =>
        LET found == get(mstore.cache, mcall.platform, mcall.app_id, mcall.version)
        IN  /\ found # None
            /\ found.some.path = <<as_str(mcall.platform), mcall.app_id, mcall.version,
                                   mcall.filename>>
            /\ mret.path = found.some.path

ScanCountsCache ==
    (mcall.op = "scan" /\ mret.ok) => mret.count = Cardinality(mstore.cache)

\* C34: after any sequence of scan, save_mapping and add_mapping the cache
\* holds at most one entry per (platform, app_id, version) key and every
\* entry's path is a file that exists on disk; a successful save_mapping makes
\* get return <root>/<platform>/<app>/<version>/<filename>; and scan returns
\* the number of entries the cache holds afterwards.
C34_CacheMatchesDisk ==
    OneEntryPerKey /\ EntriesAreFiles /\ SavedIsFound /\ ScanCountsCache

\* what remains true of the cache: one entry per key, and a successful
\* save_mapping is found under its key at the path it returned
C34_KeysAndSaves == OneEntryPerKey /\ SavedIsFound

(***************************************************************************)
(* Order of the crashes from the connection to the database                *)
(***************************************************************************)
\* a subscription that holds a crash handles no frame before it is sent; the
\* crash it holds is the one of the event it read last
OneEventAtATime(r) ==
    sub[r].pc = "send" =>
        /\ sub[r].crash # None /\ sub[r].event # None
        /\ sub[r].crash.some.event_id = sub[r].event.some
        /\ sub'[r].event = sub[r].event
        /\ sub'[r].seen = sub[r].seen
        /\ sub'[r].crash \in {sub[r].crash, None}

\* the queue grows at its tail by the crash a sending subscription holds
Enqueued ==
    \E r \in ServeRelays :
        /\ sub[r].pc = "send"
        /\ queue' = Append(queue, sub[r].crash.some)
        /\ sub'[r].pc = "read"
        /\ worker' = worker

\* the worker takes the head of the queue, or dies and drops what is queued
Dequeued ==
    /\ queue # <<>>
    /\ worker.pc = "recv"
    /\ \/ /\ queue' = Tail(queue)
          /\ worker'.pc = "insert"
          /\ worker'.crash = Some(Head(queue))
          /\ worker'.report.some.event_id = Head(queue).event_id
       \/ /\ queue' = <<>>
          /\ worker'.pc = "dead"

\* the worker inserts the crash it took before it takes the next one
Inserted ==
    /\ worker.pc = "insert"
    /\ worker'.pc = "recv"
    /\ db' = insert(db, worker.report.some).db
    /\ db'.seq >= db.seq

\* C35: the crashes of one subscription enter the queue in the order their
\* gift wraps arrived on the connection, the handling of one event being
\* finished before the next frame is read; the storage worker inserts the
\* crashes in the order they were enqueued; subscriptions interleave freely.
C35_Ordering ==
    [][/\ \A r \in ServeRelays : OneEventAtATime(r)
       /\ queue' # queue => Enqueued \/ Dequeued
       /\ (worker' # worker \/ db' # db) => Dequeued \/ Inserted]_vars

\* two crashes of different gift wraps wait in the queue, and both relays
\* have read both gift wraps
C35_Witness ==
    /\ Len(queue) >= 2
    /\ queue[1].event_id # queue[2].event_id
    /\ \A r \in ServeRelays : Cardinality(sub[r].seen) >= 2

(***************************************************************************)
(* Termination of the chunk fetch                                          *)
(***************************************************************************)
\* every fetch_chunks_from_relay task that was started ends
TasksEnd == \A r \in Relays : (task[r].pc # "idle") ~> (task[r].pc = "done")

\* C36: chunk fetching always terminates: whatever a relay does, every
\* fetch_chunks_from_relay task ends, and fetch_chunks eventually returns Ok
\* or Err to the subscriber.
C36_FetchTerminates == TasksEnd /\ <>(fpc = "returned" /\ fres # Null)

\* every task ends, and fetch_chunks returns unless it panics
C36_EndsOrPanics == TasksEnd /\ <>(fpc \in {"returned", "panicked"})

(***************************************************************************)
(* When the fallback phase of fetch_chunks runs, and what it requests      *)
(***************************************************************************)
FallbackStarts == fpc # "fallback" /\ fpc' = "fallback"

\* the fallback phase starts one task per relay of the list, each with every
\* chunk id of the manifest
OneTaskPerRelay ==
    FallbackStarts =>
        \A r \in Relays : /\ \E k \in 1..Len(relay_urls) : relay_urls[k] = r
                          /\ task'[r].pc = "connect"
                          /\ task'[r].ids = fmanifest.chunk_ids

\* a fallback task that builds its filter asks for the ids of the indices
\* the map lacks at that moment, and sends nothing when there is none
RequestsMissing(r) ==
    (fpc = "fallback" /\ task[r].pc = "needed" /\ task'[r] # task[r]) =>
        /\ task'[r].needed =
              {fmanifest.chunk_ids[i + 1] : i \in (0..ExpectedCount - 1) \ DOMAIN fchunks}
        /\ task'[r].pc = IF task'[r].needed = {} THEN "done" ELSE "loop"

\* C37: the fallback phase runs iff there were no hints or not all chunks of
\* indices 0..n-1 arrived in the hinted phase; when it runs, one task is
\* started per relay of the fallback list, and each task requests only the
\* ids of the chunks still missing from the map when it builds its filter.
C37_FallbackWhenMissing ==
    [][/\ (fpc = "start" /\ fpc' # "start" /\ ExpectedCount > 0) =>
              (fpc' = "fallback" <=> ~has_hints(fmanifest.chunk_relays))
       /\ (fpc = "hinted" /\ fpc' # "hinted") => (fpc' = "fallback" <=> IndexAbsent)
       /\ OneTaskPerRelay
       /\ \A r \in Relays : RequestsMissing(r)]_vars

\* the same with the test the code makes after the hinted phase: the map
\* holds fewer entries than the manifest has chunks
C37_FallbackByCount ==
    [][/\ (fpc = "start" /\ fpc' # "start" /\ ExpectedCount > 0) =>
              (fpc' = "fallback" <=> ~has_hints(fmanifest.chunk_relays))
       /\ (fpc = "hinted" /\ fpc' \notin {"hinted", "panicked"}) =>
              (fpc' = "fallback" <=> Cardinality(DOMAIN fchunks) # ExpectedCount)
       /\ OneTaskPerRelay
       /\ \A r \in Relays : RequestsMissing(r)]_vars

(***************************************************************************)
(* The frames of a stack against the lines of its trace                    *)
(***************************************************************************)
\* the lines the raw texts of the frames hold, frame after frame
RECURSIVE RawLines(_)
RawLines(found_frames) ==
    IF found_frames = <<>> THEN <<>>
    ELSE Head(found_frames).raw \o RawLines(Tail(found_frames))

\* the elements of s occur in t in the order of s
RECURSIVE IsSubsequence(_, _)
IsSubsequence(s, t) ==
    IF s = <<>> THEN TRUE
    ELSE IF t = <<>> THEN FALSE
    ELSE IF Head(s) = Head(t) THEN IsSubsequence(Tail(s), Tail(t))
    ELSE IsSubsequence(s, Tail(t))

Returned == ycall.op = "symbolicate" /\ yret.ok

\* C38: for every parser and every input the frames of the returned stack
\* appear in the order of the lines they come from; in the Rust and Go
\* parsers a line between a function line and a later line is not emitted
\* ahead of the frame of that function line.
C38_FramesInLineOrder ==
    Returned => IsSubsequence(RawLines(yret.stack.frames), ytrace)

\* the order is kept by every parser but those of Rust and Go
C38_OrderedElsewhere ==
    (Returned /\ ycontext.platform.p \notin {"Rust", "Go"})
        => IsSubsequence(RawLines(yret.stack.frames), ytrace)

LineParsers == {"Rust", "Go", "Python"}

\* the frames whose raw text holds line i of the trace
FramesWith(i) ==
    {k \in 1..Len(yret.stack.frames) :
        \E j \in 1..Len(yret.stack.frames[k].raw) :
            yret.stack.frames[k].raw[j] = ytrace[i]}

\* C39: for the Rust, Go and Python parsers every non-empty line of the trace
\* is in the raw text of a returned frame (of one frame only, when the line
\* occurs once), and symbolicated_count is the number of returned frames
\* with symbolicated = true.
C39_NoLineLost ==
    (Returned /\ ycontext.platform.p \in LineParsers) =>
        /\ \A i \in NonEmptyLines :
              /\ FramesWith(i) # {}
              /\ Cardinality(FramesWith(i))
                    <= Cardinality({j \in NonEmptyLines : ytrace[j] = ytrace[i]})
        /\ yret.stack.symbolicated_count =
              Cardinality({k \in 1..Len(yret.stack.frames) :
                              yret.stack.frames[k].symbolicated})

\* what holds of the three parsers: no line is in more frames than it has
\* occurrences, and symbolicated_count counts the symbolicated frames
C39_CountAndNoCopies ==
    (Returned /\ ycontext.platform.p \in LineParsers) =>
        /\ \A i \in NonEmptyLines :
              Cardinality(FramesWith(i))
                 <= Cardinality({j \in NonEmptyLines : ytrace[j] = ytrace[i]})
        /\ yret.stack.symbolicated_count =
              Cardinality({k \in 1..Len(yret.stack.frames) :
                              yret.stack.frames[k].symbolicated})

(***************************************************************************)
(* The key under which a crash is stored                                   *)
(***************************************************************************)
\* the gift wrap with this id that the relays hold
WrapOf(id) == CHOOSE w \in stored : w.id = id

\* every crash held anywhere is named after a gift wrap the relays hold, it
\* has the sender and time of the rumor inside that gift wrap, and its
\* event_id is no rumor's id
NamedAfterGiftWrap ==
    /\ HeldEventIds \subseteq {w.id : w \in stored}
    /\ HeldEventIds \cap {w.rumor.id : w \in stored} = {}
    /\ \A id \in HeldEventIds : \A crash \in HeldCrashes(id) :
          /\ WrapOf(id).to = ReceiverKey
          /\ crash.sender_pubkey = WrapOf(id).rumor.pubkey
          /\ crash.created_at = WrapOf(id).rumor.created_at

OneRowPerGiftWrap ==
    \A w \in stored : Cardinality({row \in db.rows : row.event_id = w.id}) <= 1

\* the crash of a gift wrap that has no row yet gets a row, whatever rows
\* other gift wraps of the same rumor have
RowPerGiftWrap ==
    (worker.pc = "insert" /\ worker'.pc = "recv"
        /\ worker.crash.some.event_id \notin {row.event_id : row \in db.rows})
    => /\ Cardinality(db'.rows) = Cardinality(db.rows) + 1
       /\ \E row \in db'.rows : row.event_id = worker.crash.some.event_id

\* C40: the persistence dedup key is the outer gift-wrap event id: every
\* crash sent to the storage queue (direct, legacy or reassembled) carries the
\* id of the gift wrap it was unwrapped from, never the rumor's id; one gift
\* wrap yields at most one row and one rumor inside two gift wraps two rows.
C40_KeyedByGiftWrap ==
    /\ [](NamedAfterGiftWrap /\ OneRowPerGiftWrap)
    /\ [][RowPerGiftWrap]_vars

\* the same rumor came in two gift wraps, read by both relays, and has two
\* rows
C40_Witness ==
    /\ \E r1, r2 \in db.rows :
          /\ r1.event_id = "direct" /\ r2.event_id = "twin"
          /\ r1.raw_content = r2.raw_content
    /\ \A r \in ServeRelays : Cardinality(sub[r].seen) = 2

====
